---------------------------- MODULE Spec2Model ----------------------------
(***************************************************************************)
(* ECSM: the LinearPool slab allocator (include/linear-pool.hpp), the      *)
(* per-entity component directory and the Manager's deferred destruction   *)
(* (source/ecsm.cpp and the ecsm.hpp header).                              *)
(*                                                                         *)
(* A pool is a record; every pool operation is a pure operator on that     *)
(* record, translated from the C++ body (debug build, NDEBUG not defined). *)
(* Spec drives one destructible pool through its public interface from a   *)
(* client that passes destroy() only handles it obtained from create() and *)
(* has not destroyed yet (the documented parameter: "item identifier in    *)
(* the pool or null").                                                     *)
(* ViewSpec adds a client that keeps a View across calls; MgrSpec drives   *)
(* a Manager (entity pool, one component pool per system, garbage set).    *)
(* RefSpec drives Ref<T> objects from one thread, ThreadsSpec from several *)
(* threads at the grain of one counter access; DirSpec drives the          *)
(* component directory of one Entity; ReentSpec a pool whose callbacks     *)
(* call back into it.                                                      *)
(***************************************************************************)
EXTENDS Integers, Sequences, FiniteSets, TLC

\* ------------------------------------------------------------------ bounds
MaxOccupancy == 3      \* slots a pool of the model ever uses
MaxVersion == 5        \* version bumps (append-creates and destroys) per pool
MaxData == 2           \* values a client writes into a record: 1..MaxData
MaxDefer == 1          \* times one record's finalizer answers "not yet"
NumTypes == 2          \* component types, each with its own system
MaxEntities == 2       \* slots of the Manager's entity pool
MaxComponents == 2     \* slots of one system's component pool
MaxChanges == 5        \* version bumps over all pools of a Manager
MaxRefs == 3           \* Ref<T> objects of the single-threaded client
MaxRefItems == 1       \* item identifiers a Ref wraps: 0 (null) .. MaxRefItems
NumThreads == 2        \* threads sharing one lineage of Refs
RefsPerThread == 2     \* Ref<T> objects of one thread
MaxKey == 4            \* type keys of the directory client: 1..MaxKey
MaxInstance == 2       \* component handles entered in a directory: 1..MaxInstance
MaxNewEvents == 2      \* events a client registers besides the built-in seven
MaxSubscriptions == 2  \* subscriptions a client makes over all events
MaxManagers == 2       \* Manager objects of the singleton client
MaxPassChanges == 6    \* version bumps over all pools of the Manager of the update client

\* ------------------------------------------------------------------ helpers
SeqToSet(s) == {s[i] : i \in 1..Len(s)}

\* number of positions of s holding x
Occurrences(s, x) == Cardinality({i \in 1..Len(s) : s[i] = x})

\* ------------------------------------------------------------------ items
\* A pool item of the test kind (tests/test-ecsm.cpp TestComponent, int ID = 0):
\* T0 is the default-constructed T().
T0 == [ID |-> 0]

\* T(args): the record the constructor builds from its argument
T(arg) == [ID |-> arg]

\* ------------------------------------------------------------------ LinearPool
\* LinearPool(): items = new T[1], occupancy 0, capacity 1, empty free stack
\* and garbage vector, version 0, isChanging false.  def is T().
LinearPool(def) ==
    [items |-> <<def>>, occupancy |-> 0, capacity |-> 1,
     freeItems |-> <<>>, garbageItems |-> <<>>,
     version |-> 0, isChanging |-> FALSE]

\* grow() that allocates the doubled block and forgets to move the items
grow_noMove(p, def) ==
    [p EXCEPT !.capacity = p.capacity * 2,
              !.items = [i \in 1..(p.capacity * 2) |-> def]]

\* The block after capacity *= 2: new T[capacity], the first `occupancy`
\* items moved over, the rest default-constructed.
grow(p, def) ==
    [p EXCEPT !.capacity = p.capacity * 2,
              !.items = [i \in 1..(p.capacity * 2) |->
                            IF i <= p.occupancy THEN p.items[i] ELSE def]]

\* create() whose free-slot branch pops the handle but does not assign the
\* new record to the slot
create_keepsSlot(p, item, def) ==
    IF p.isChanging
    THEN [pool |-> p, id |-> 0, threw |-> TRUE]
    ELSE IF p.freeItems # <<>>
    THEN LET freeItem == p.freeItems[Len(p.freeItems)]
         IN [pool |-> [p EXCEPT !.freeItems = SubSeq(@, 1, Len(@) - 1)],
             id |-> freeItem, threw |-> FALSE]
    ELSE LET q == IF p.occupancy = p.capacity THEN grow(p, def) ELSE p
         IN [pool |-> [q EXCEPT !.items[q.occupancy + 1] = item,
                                !.version = @ + 1,
                                !.occupancy = @ + 1],
             id |-> q.occupancy + 1, threw |-> FALSE]

\* create() that bumps the version only when the block was reallocated
create_bumpOnGrowth(p, item, def) ==
    IF p.isChanging
    THEN [pool |-> p, id |-> 0, threw |-> TRUE]
    ELSE IF p.freeItems # <<>>
    THEN LET freeItem == p.freeItems[Len(p.freeItems)]
         IN [pool |-> [p EXCEPT !.freeItems = SubSeq(@, 1, Len(@) - 1),
                                !.items[freeItem] = item],
             id |-> freeItem, threw |-> FALSE]
    ELSE LET grew == p.occupancy = p.capacity
             q == IF grew THEN grow(p, def) ELSE p
         IN [pool |-> [q EXCEPT !.items[q.occupancy + 1] = item,
                                !.version = IF grew THEN @ + 1 ELSE @,
                                !.occupancy = @ + 1],
             id |-> q.occupancy + 1, threw |-> FALSE]

\* create without the test of isChanging
create_reentrant(p, item, def) ==
    IF p.freeItems # <<>>
    THEN LET freeItem == p.freeItems[Len(p.freeItems)]
         IN [pool |-> [p EXCEPT !.freeItems = SubSeq(@, 1, Len(@) - 1),
                                !.items[freeItem] = item],
             id |-> freeItem, threw |-> FALSE]
    ELSE LET q == IF p.occupancy = p.capacity THEN grow(p, def) ELSE p
         IN [pool |-> [q EXCEPT !.items[q.occupancy + 1] = item,
                                !.version = @ + 1,
                                !.occupancy = @ + 1],
             id |-> q.occupancy + 1, threw |-> FALSE]

\* create(args): item is T(args).  Result: the pool, the returned ID, and
\* whether the call threw (reentrancy guard).
create(p, item, def) ==
    IF p.isChanging
    THEN [pool |-> p, id |-> 0, threw |-> TRUE]
    ELSE IF p.freeItems # <<>>
    THEN LET freeItem == p.freeItems[Len(p.freeItems)]
         IN [pool |-> [p EXCEPT !.freeItems = SubSeq(@, 1, Len(@) - 1),
                                !.items[freeItem] = item],
             id |-> freeItem, threw |-> FALSE]
    ELSE LET q == IF p.occupancy = p.capacity THEN grow(p, def) ELSE p
         IN [pool |-> [q EXCEPT !.items[q.occupancy + 1] = item,
                                !.version = @ + 1,
                                !.occupancy = @ + 1],
             id |-> q.occupancy + 1, threw |-> FALSE]

\* destroy() that finalizes at once: it also resets the slot
destroy_resetsSlot(p, instance) ==
    IF instance = 0
    THEN [pool |-> p, aborted |-> FALSE]
    ELSE IF ~(instance - 1 < p.occupancy)
            \/ instance \in SeqToSet(p.garbageItems)
    THEN [pool |-> p, aborted |-> TRUE]
    ELSE [pool |-> [p EXCEPT !.version = @ + 1,
                             !.items[instance] = T0,
                             !.garbageItems = Append(@, instance)],
          aborted |-> FALSE]

\* destroy() without the version++
destroy_noBump(p, instance) ==
    IF instance = 0
    THEN [pool |-> p, aborted |-> FALSE]
    ELSE IF ~(instance - 1 < p.occupancy)
            \/ instance \in SeqToSet(p.garbageItems)
    THEN [pool |-> p, aborted |-> TRUE]
    ELSE [pool |-> [p EXCEPT !.garbageItems = Append(@, instance)],
          aborted |-> FALSE]

\* destroy() that also empties the free list
destroy_dropsFree(p, instance) ==
    IF instance = 0
    THEN [pool |-> p, aborted |-> FALSE]
    ELSE IF ~(instance - 1 < p.occupancy)
            \/ instance \in SeqToSet(p.garbageItems)
    THEN [pool |-> p, aborted |-> TRUE]
    ELSE [pool |-> [p EXCEPT !.version = @ + 1,
                             !.freeItems = <<>>,
                             !.garbageItems = Append(@, instance)],
          aborted |-> FALSE]

\* destroy(instance): no-op on null; the debug assertions abort the program
\* (aborted); otherwise version++ and push_back on the garbage vector.
destroy(p, instance) ==
    IF instance = 0
    THEN [pool |-> p, aborted |-> FALSE]
    ELSE IF ~(instance - 1 < p.occupancy)
            \/ instance \in SeqToSet(p.garbageItems)
    THEN [pool |-> p, aborted |-> TRUE]
    ELSE [pool |-> [p EXCEPT !.version = @ + 1,
                             !.garbageItems = Append(@, instance)],
          aborted |-> FALSE]

\* get(instance): two assertions, then View(&items[instance - 1], version).
get(p, instance) ==
    IF instance = 0 \/ ~(instance - 1 < p.occupancy)
    THEN [aborted |-> TRUE, index |-> 0, version |-> 0]
    ELSE [aborted |-> FALSE, index |-> instance, version |-> p.version]

\* View::operator-> : throws when the captured version differs from the
\* pool's current one.
viewThrows(view, p) == view.version # p.version

\* getCount(): occupancy - (uint32_t)freeItems.size().  The subtraction is
\* in uint32_t: a negative d here stands for the wrapped value 2^32 + d
\* (2^32 itself is beyond TLC's integers).
getCount(p) == p.occupancy - Len(p.freeItems)

\* The dispose() loop that shortens the garbage vector without moving its
\* last entry into the place of the freed one
RECURSIVE disposeLoop_noMove(_, _, _)
disposeLoop_noMove(st, res, def) ==
    IF ~(st.i < st.n)
    THEN st
    ELSE LET item == st.g[st.i + 1]
             ok == res[Len(st.calls) + 1]
             st1 == [st EXCEPT !.calls = Append(@, [h |-> item, ok |-> ok])]
         IN IF ok
            THEN disposeLoop_noMove([st1 EXCEPT !.items[item] = def,
                                                !.free = Append(@, item),
                                                !.n = @ - 1], res, def)
            ELSE disposeLoop_noMove([st1 EXCEPT !.i = @ + 1], res, def)


\* The dispose() loop with i++ after a freed entry too: the entry swapped
\* into position i is skipped in this pass
RECURSIVE disposeLoop_skips(_, _, _)
disposeLoop_skips(st, res, def) ==
    IF ~(st.i < st.n)
    THEN st
    ELSE LET item == st.g[st.i + 1]
             ok == res[Len(st.calls) + 1]
             st1 == [st EXCEPT !.calls = Append(@, [h |-> item, ok |-> ok])]
         IN IF ok
            THEN disposeLoop_skips([st1 EXCEPT !.items[item] = def,
                                               !.free = Append(@, item),
                                               !.g[st.i + 1] = st.g[st.n],
                                               !.n = @ - 1,
                                               !.i = @ + 1], res, def)
            ELSE disposeLoop_skips([st1 EXCEPT !.i = @ + 1], res, def)

\* The while loop of dispose() for a destructible pool.  st holds the loop's
\* variables (items, free stack, garbageData, i, n) and the log of the
\* finalizer calls made so far; res[k] is what the k-th call of
\* items[..].destroy() in this pass returns.
RECURSIVE disposeLoop(_, _, _)
disposeLoop(st, res, def) ==
    IF ~(st.i < st.n)
    THEN st
    ELSE LET item == st.g[st.i + 1]
             ok == res[Len(st.calls) + 1]
             st1 == [st EXCEPT !.calls = Append(@, [h |-> item, ok |-> ok])]
         IN IF ok
            THEN disposeLoop([st1 EXCEPT !.items[item] = def,
                                         !.free = Append(@, item),
                                         !.g[st.i + 1] = st.g[st.n],
                                         !.n = @ - 1], res, def)
            ELSE disposeLoop([st1 EXCEPT !.i = @ + 1], res, def)

\* dispose() that resets the freed slots but never pushes them on the free
\* stack
dispose_noPush(p, res, def) ==
    IF p.isChanging
    THEN [pool |-> p, calls |-> <<>>, threw |-> TRUE]
    ELSE LET st == disposeLoop([items |-> p.items, free |-> p.freeItems,
                                g |-> p.garbageItems, i |-> 0,
                                n |-> Len(p.garbageItems), calls |-> <<>>],
                               res, def)
         IN [pool |-> [p EXCEPT !.items = st.items,
                                !.garbageItems = SubSeq(st.g, 1, st.n)],
             calls |-> st.calls, threw |-> FALSE]

\* dispose() of LinearPool<T, true>: the loop, then garbageItems.resize(n).
dispose(p, res, def) ==
    IF p.isChanging
    THEN [pool |-> p, calls |-> <<>>, threw |-> TRUE]
    ELSE LET st == disposeLoop([items |-> p.items, free |-> p.freeItems,
                                g |-> p.garbageItems, i |-> 0,
                                n |-> Len(p.garbageItems), calls |-> <<>>],
                               res, def)
         IN [pool |-> [p EXCEPT !.items = st.items,
                                !.freeItems = st.free,
                                !.garbageItems = SubSeq(st.g, 1, st.n)],
             calls |-> st.calls, threw |-> FALSE]

\* clear(destroyItems) of LinearPool<T, true>: finalizes every slot below
\* occupancy when any record is counted, then resets all bookkeeping.
clear(p, destroyItems, def) ==
    IF p.isChanging
    THEN [pool |-> p, calls |-> <<>>, threw |-> TRUE]
    ELSE [pool |-> LinearPool(def),
          calls |-> IF getCount(p) # 0 /\ destroyItems
                    THEN [i \in 1..p.occupancy |-> i] ELSE <<>>,
          threw |-> FALSE]

\* dispose() of LinearPool<T, false>: every waiting slot is reset and pushed
\* on the free stack, in the order of the garbage vector; no finalizer runs.
disposePlain(p, def) ==
    IF p.isChanging
    THEN [pool |-> p, threw |-> TRUE]
    ELSE [pool |-> [p EXCEPT
                      !.items = [i \in DOMAIN @ |->
                                    IF i \in SeqToSet(p.garbageItems) THEN def ELSE @[i]],
                      !.freeItems = @ \o p.garbageItems,
                      !.garbageItems = <<>>],
          threw |-> FALSE]

\* clear() that keeps the version counter
LinearPool_clear_keepsVersion(p, DestroyItems, destroyItems, def) ==
    IF destroyItems /\ ~DestroyItems
    THEN [pool |-> p, calls |-> <<>>, threw |-> TRUE,
          error |-> "Item does not have destroy function."]
    ELSE IF p.isChanging
    THEN [pool |-> p, calls |-> <<>>, threw |-> TRUE,
          error |-> "Clear of the items inside other create/dispose/clear is not allowed."]
    ELSE [pool |-> [LinearPool(def) EXCEPT !.version = p.version],
          calls |-> IF DestroyItems /\ getCount(p) # 0 /\ destroyItems
                    THEN [i \in 1..p.occupancy |-> i] ELSE <<>>,
          threw |-> FALSE, error |-> ""]

\* clear(destroyItems) of LinearPool<T, DestroyItems>, debug build: the two
\* tests in the order of the code, the finalizer calls of a destructible
\* pool, then the reset of the block and of all bookkeeping.
LinearPool_clear(p, DestroyItems, destroyItems, def) ==
    IF destroyItems /\ ~DestroyItems
    THEN [pool |-> p, calls |-> <<>>, threw |-> TRUE,
          error |-> "Item does not have destroy function."]
    ELSE IF p.isChanging
    THEN [pool |-> p, calls |-> <<>>, threw |-> TRUE,
          error |-> "Clear of the items inside other create/dispose/clear is not allowed."]
    ELSE [pool |-> LinearPool(def),
          calls |-> IF DestroyItems /\ getCount(p) # 0 /\ destroyItems
                    THEN [i \in 1..p.occupancy |-> i] ELSE <<>>,
          threw |-> FALSE, error |-> ""]

\* ------------------------------------------------------------------ Entity
\* Component type keys (type_index::hash_code()); the system registered for
\* type t is named t as well, one ComponentSystem per component type.
Types == 1..NumTypes

\* Entity(): components = nullptr, capacity = 0, count = 0.  The array is the
\* sequence of its first `count` elements.
Entity0 == [components |-> <<>>, capacity |-> 0]

\* Component(): entity = null
Component0 == [entity |-> 0]

compareComps(l, r) ==
    IF l.type < r.type THEN -1 ELSE IF l.type > r.type THEN 1 ELSE 0

\* insertion of x into an array ordered by compareComps
RECURSIVE insertSorted(_, _)
insertSorted(s, x) ==
    IF s = <<>> THEN <<x>>
    ELSE IF compareComps(x, s[Len(s)]) < 0
    THEN Append(insertSorted(SubSeq(s, 1, Len(s) - 1), x), s[Len(s)])
    ELSE Append(s, x)

\* qsort(components, count, sizeof(ComponentData), compareComps)
RECURSIVE qsort(_)
qsort(s) ==
    IF s = <<>> THEN <<>>
    ELSE insertSorted(qsort(SubSeq(s, 1, Len(s) - 1)), s[Len(s)])

\* bsearch(&key, base, count, size, compareComps) on base[l..u): the 1-based
\* position of the element found, 0 for NULL
RECURSIVE bsearch(_, _, _, _)
bsearch(key, base, l, u) ==
    IF ~(l < u) THEN 0
    ELSE LET idx == (l + u) \div 2
             c == compareComps(key, base[idx + 1])
         IN IF c < 0 THEN bsearch(key, base, l, idx)
            ELSE IF c > 0 THEN bsearch(key, base, idx + 1, u)
            ELSE idx + 1

\* Entity::findComponent(type): position of the entry, 0 for null
findComponent(entity, type) ==
    bsearch([type |-> type], entity.components, 0, Len(entity.components))

\* Entity::reserve(capacity), called with a capacity of at least count:
\* realloc keeps the entries
reserve(entity, capacity) == [entity EXCEPT !.capacity = capacity]

\* addComponent that appends and does not sort
addComponent_noSort(entity, type, system, instance) ==
    [components |-> Append(entity.components,
                        [type |-> type, system |-> system, instance |-> instance]),
     capacity |-> IF Len(entity.components) = entity.capacity
                  THEN (IF entity.capacity = 0 THEN 1 ELSE entity.capacity * 2)
                  ELSE entity.capacity]

\* Entity::addComponent(type, system, instance)
addComponent(entity, type, system, instance) ==
    [components |-> qsort(Append(entity.components,
                        [type |-> type, system |-> system, instance |-> instance])),
     capacity |-> IF Len(entity.components) = entity.capacity
                  THEN (IF entity.capacity = 0 THEN 1 ELSE entity.capacity * 2)
                  ELSE entity.capacity]

\* removeComponent that leaves the array as it is
removeComponent_keeps(entity, i) == entity

\* Entity::removeComponent(data), data the entry at position i
removeComponent(entity, i) ==
    [entity EXCEPT !.components =
        [k \in 1..(Len(entity.components) - 1) |->
            IF k < i THEN entity.components[k] ELSE entity.components[k + 1]]]

\* ------------------------------------------------------------------ ComponentSystem
\* ComponentSystem<T>::createComponent(entity): components.create()
createComponent(p) == create(p, Component0, Component0)

\* ComponentSystem<T>::destroyComponent(instance): components.get(instance),
\* resetComponent(view, false) (empty by default), components.destroy(instance)
destroyComponent(p, instance) ==
    IF get(p, instance).aborted
    THEN [pool |-> p, aborted |-> TRUE]
    ELSE destroy(p, instance)

\* ComponentSystem<T>::disposeComponents(): components.dispose(), the
\* component's destroy() returning true
disposeComponents(p) ==
    dispose(p, [k \in 1..Len(p.garbageItems) |-> TRUE], Component0).pool

\* ------------------------------------------------------------------ Manager
\* A Manager with one ComponentSystem created for every component type:
\* componentTypes maps the type key to its system, systems holds each
\* system's component pool, the entity pool and the garbage set are empty.
Manager ==
    [componentTypes |-> [t \in Types |-> t],
     systems |-> [s \in Types |-> [components |-> LinearPool(Component0)]],
     entities |-> LinearPool(Entity0),
     garbageComponents |-> {}]

\* the null View / null ID
NullView == [aborted |-> FALSE, index |-> 0, version |-> 0]

\* what a Manager call gives back: the manager after it, the EcsmError it
\* threw ("" for none), whether an assertion stopped the program, and the
\* returned component ID
Outcome(m, error, aborted, id) ==
    [m |-> m, error |-> error, aborted |-> aborted, id |-> id]

\* Manager::createEntity(): entities.create()
createEntity(m) ==
    LET c == create(m.entities, Entity0, Entity0)
    IN Outcome([m EXCEPT !.entities = c.pool], "", FALSE, c.id)

\* Manager::destroy(ID<Entity>): entities.destroy(instance)
Manager_destroy(m, instance) ==
    LET d == destroy(m.entities, instance)
    IN Outcome([m EXCEPT !.entities = d.pool], "", d.aborted, 0)

\* Manager::add(entity, componentType).  The component is created, and its
\* entity field set, before the directory is searched.
add(m, entity, componentType) ==
    IF entity = 0
    THEN Outcome(m, "", TRUE, 0)
    ELSE IF componentType \notin DOMAIN m.componentTypes
    THEN Outcome(m, "Component is not registered by any system.", FALSE, 0)
    ELSE LET system == m.componentTypes[componentType]
             c == createComponent(m.systems[system].components)
             m1 == [m EXCEPT !.systems[system].components =
                                [c.pool EXCEPT !.items[c.id].entity = entity]]
             entityView == get(m.entities, entity)
         IN IF entityView.aborted
            THEN Outcome(m1, "", TRUE, 0)
            ELSE IF findComponent(m.entities.items[entityView.index], componentType) # 0
            THEN Outcome(m1, "Component is already added to the entity.", FALSE, 0)
            ELSE Outcome([m1 EXCEPT !.entities.items[entityView.index] =
                                       addComponent(@, componentType, system, c.id)],
                         "", FALSE, c.id)

\* Manager::remove that detaches at once: it also hands the component to its
\* pool's destroy and removes the directory entry
remove_detaches(m, entity, componentType) ==
    LET entityView == get(m.entities, entity)
    IN IF entityView.aborted
       THEN Outcome(m, "", TRUE, 0)
       ELSE LET i == findComponent(m.entities.items[entityView.index], componentType)
            IN IF i = 0
               THEN Outcome(m, "Component is not added.", FALSE, 0)
               ELSE IF <<componentType, entity>> \in m.garbageComponents
               THEN Outcome(m, "Already removed component.", FALSE, 0)
               ELSE LET data == m.entities.items[entityView.index].components[i]
                    IN Outcome([m EXCEPT
                           !.garbageComponents = @ \cup {<<componentType, entity>>},
                           !.systems[data.system].components =
                               destroyComponent(@, data.instance).pool,
                           !.entities.items[entityView.index] = removeComponent(@, i)],
                         "", FALSE, 0)

\* Manager::remove without the "already removed" test: a second remove of
\* the pair returns quietly
remove_twice(m, entity, componentType) ==
    LET entityView == get(m.entities, entity)
    IN IF entityView.aborted
       THEN Outcome(m, "", TRUE, 0)
       ELSE IF findComponent(m.entities.items[entityView.index], componentType) = 0
       THEN Outcome(m, "Component is not added.", FALSE, 0)
       ELSE Outcome([m EXCEPT !.garbageComponents = @ \cup {<<componentType, entity>>}],
                    "", FALSE, 0)

\* Manager::remove(entity, componentType)
remove(m, entity, componentType) ==
    LET entityView == get(m.entities, entity)
    IN IF entityView.aborted
       THEN Outcome(m, "", TRUE, 0)
       ELSE IF findComponent(m.entities.items[entityView.index], componentType) = 0
       THEN Outcome(m, "Component is not added.", FALSE, 0)
       ELSE IF <<componentType, entity>> \in m.garbageComponents
       THEN Outcome(m, "Already removed component.", FALSE, 0)
       ELSE Outcome([m EXCEPT !.garbageComponents = @ \cup {<<componentType, entity>>}],
                    "", FALSE, 0)

\* The for loop of Manager::duplicate from the i-th entry of the source's
\* directory on.  ComponentSystem::copyComponent copies no field of
\* Component.
RECURSIVE duplicateLoop(_, _, _, _)
duplicateLoop(m, components, duplicateEntity, i) ==
    IF ~(i < Len(components))
    THEN Outcome(m, "", FALSE, duplicateEntity)
    ELSE LET componentData == components[i + 1]
             system == componentData.system
             c == createComponent(m.systems[system].components)
             m1 == [m EXCEPT !.systems[system].components =
                                [c.pool EXCEPT !.items[c.id].entity = duplicateEntity]]
             duplicateView == get(m1.entities, duplicateEntity)
         IN IF findComponent(m1.entities.items[duplicateView.index],
                             componentData.type) # 0
            THEN Outcome(m1, "Component is already added to the entity.", FALSE, 0)
            ELSE duplicateLoop(
                     [m1 EXCEPT !.entities.items[duplicateView.index] =
                                   addComponent(@, componentData.type, system, c.id)],
                     components, duplicateEntity, i + 1)

\* Manager::duplicate(entity).  reserve(0) asks malloc for zero bytes and
\* aborts on a null pointer, which malloc(0) may or may not return:
\* mallocNull is the answer of the platform.
duplicate(m, entity, mallocNull) ==
    LET c == create(m.entities, Entity0, Entity0)
        m1 == [m EXCEPT !.entities = c.pool]
        entityView == get(m1.entities, entity)
    IN IF entityView.aborted
       THEN Outcome(m1, "", TRUE, 0)
       ELSE LET source == m1.entities.items[entityView.index]
            IN IF source.capacity = 0 /\ mallocNull
               THEN Outcome(m1, "", TRUE, 0)
               ELSE duplicateLoop(
                        [m1 EXCEPT !.entities.items[c.id] = reserve(@, source.capacity)],
                        source.components, c.id, 0)


\* Manager::has that looks at the directory only
has_ignoresGarbage(m, entity, componentType) ==
    findComponent(m.entities.items[entity], componentType) # 0

\* Manager::has(entity, componentType), entity a handle entities.get accepts
has(m, entity, componentType) ==
    /\ findComponent(m.entities.items[entity], componentType) # 0
    /\ <<componentType, entity>> \notin m.garbageComponents

\* Manager::get(entity, componentType): the view, or the error thrown
Manager_get(m, entity, componentType) ==
    LET i == findComponent(m.entities.items[entity], componentType)
    IN IF i = 0
       THEN [error |-> "Component is not added.", view |-> NullView]
       ELSE LET data == m.entities.items[entity].components[i]
            IN [error |-> "", view |-> get(m.systems[data.system].components, data.instance)]

\* Manager::tryGet(entity, componentType)
tryGet(m, entity, componentType) ==
    LET i == findComponent(m.entities.items[entity], componentType)
    IN IF i = 0 \/ <<componentType, entity>> \in m.garbageComponents
       THEN NullView
       ELSE LET data == m.entities.items[entity].components[i]
            IN get(m.systems[data.system].components, data.instance)

\* Manager::tryGetID(entity, componentType)
tryGetID(m, entity, componentType) ==
    LET i == findComponent(m.entities.items[entity], componentType)
    IN IF i = 0 \/ <<componentType, entity>> \in m.garbageComponents
       THEN 0
       ELSE m.entities.items[entity].components[i].instance

\* begin() of a non-empty std::set<std::pair<size_t, ID<Entity>>>: the least
\* pair, by type key and then by entity index
\* The mutant of firstPair that takes the greatest pair.
firstPair_last(s) ==
    CHOOSE a \in s : \A b \in s : a[1] > b[1] \/ (a[1] = b[1] /\ a[2] >= b[2])

firstPair(s) ==
    CHOOSE a \in s : \A b \in s : a[1] < b[1] \/ (a[1] = b[1] /\ a[2] <= b[2])

\* The for loop of disposeGarbageComponents over the pairs still to visit.
\* An assertion that fails stops the program where it stands.
RECURSIVE disposeGarbageLoop(_, _)
disposeGarbageLoop(m, todo) ==
    IF todo = {}
    THEN Outcome(m, "", FALSE, 0)
    ELSE LET garbagePair == firstPair(todo)
             entityView == get(m.entities, garbagePair[2])
         IN IF entityView.aborted
            THEN Outcome(m, "", TRUE, 0)
            ELSE LET entity == m.entities.items[entityView.index]
                     i == findComponent(entity, garbagePair[1])
                 IN IF i = 0
                    THEN Outcome(m, "", TRUE, 0)
                    ELSE LET data == entity.components[i]
                             d == destroyComponent(m.systems[data.system].components,
                                                   data.instance)
                             m1 == [m EXCEPT
                                      !.systems[data.system].components = d.pool]
                         IN IF d.aborted
                            THEN Outcome(m1, "", TRUE, 0)
                            ELSE disposeGarbageLoop(
                                     [m1 EXCEPT !.entities.items[entityView.index] =
                                                    removeComponent(@, i)],
                                     todo \ {garbagePair})

\* disposeGarbageComponents without the final garbageComponents.clear()
disposeGarbageComponents_keepsSet(m) ==
    disposeGarbageLoop(m, m.garbageComponents)

\* Manager::disposeGarbageComponents(): the loop, then garbageComponents.clear()
disposeGarbageComponents(m) ==
    LET r == disposeGarbageLoop(m, m.garbageComponents)
    IN IF r.aborted THEN r
       ELSE Outcome([r.m EXCEPT !.garbageComponents = {}], "", FALSE, 0)

\* Entity::destroy() from entry i on: destroyComponent for every directory
\* entry; sys is the systems map it acts on
\* The mutant of Entity::destroy that destroys no component.
Entity_destroy_none(sys, entity, i) == [systems |-> sys, aborted |-> FALSE]

RECURSIVE Entity_destroy(_, _, _)
Entity_destroy(sys, entity, i) ==
    IF ~(i < Len(entity.components))
    THEN [systems |-> sys, aborted |-> FALSE]
    ELSE LET componentData == entity.components[i + 1]
             d == destroyComponent(sys[componentData.system].components,
                                   componentData.instance)
             sys1 == [sys EXCEPT ![componentData.system].components = d.pool]
         IN IF d.aborted
            THEN [systems |-> sys1, aborted |-> TRUE]
            ELSE Entity_destroy(sys1, entity, i + 1)

\* the finalizers entities.dispose() runs, in the order of its calls, from
\* the k-th on; items are the entity records as the pass found them
RECURSIVE finalizeEntities(_, _, _, _)
finalizeEntities(sys, items, calls, k) ==
    IF k > Len(calls)
    THEN [systems |-> sys, aborted |-> FALSE]
    ELSE LET d == Entity_destroy(sys, items[calls[k].h], 0)
         IN IF d.aborted THEN d
            ELSE finalizeEntities(d.systems, items, calls, k + 1)

\* Manager::disposeEntities(): entities.dispose(), Entity::destroy() being
\* the finalizer (it always returns true)
disposeEntities(m) ==
    LET r == dispose(m.entities,
                     [k \in 1..Len(m.entities.garbageItems) |-> TRUE], Entity0)
        f == finalizeEntities(m.systems, m.entities.items, r.calls, 1)
    IN Outcome([m EXCEPT !.entities = r.pool, !.systems = f.systems],
               "", f.aborted, 0)

\* Manager::disposeSystemComponents(): disposeComponents() of every system
disposeSystemComponents(m) ==
    Outcome([m EXCEPT !.systems =
                [s \in DOMAIN @ |->
                    [components |-> disposeComponents(@[s].components)]]],
            "", FALSE, 0)

\* ------------------------------------------------------------------ Manager life cycle
\* The Manager of ecsm.cpp with its registries, events and life-cycle flags.
\* `data` is the record of the Manager section above (systems, componentTypes,
\* entities, garbageComponents); a system type s manages the component type s
\* and registers the component name s.

BuiltinEvents ==
    <<"PreInit", "Init", "PostInit", "Update", "PreDeinit", "Deinit", "PostDeinit">>
NewNames == <<"A", "B", "C", "D">>
NewEvents == {NewNames[i] : i \in 1..MaxNewEvents}
EventNames == SeqToSet(BuiltinEvents) \cup NewEvents
Subscribers == 1..MaxSubscriptions
\* The subscriber that clears isRunning when it is called.
StopSubscriber == 1

\* A value computed once and then used under a name.
Bind(value, Rest(_)) == CHOOSE y \in {Rest(x) : x \in {value}} : TRUE

With(f, k, v) == [x \in DOMAIN f \cup {k} |-> IF x = k THEN v ELSE f[x]]
Without(f, k) == [x \in DOMAIN f \ {k} |-> f[x]]

Event(name, isOrdered) ==
    [name |-> name, subscribers |-> <<>>, isOrdered |-> isOrdered]

\* Singleton<Manager, false>: the constructor, setSingleton and unsetSingleton
\* act on the static singletonInstance (0 is nullptr).
setSingleton(singleton, this) ==
    IF singleton # 0
    THEN [singletonInstance |-> singleton,
          error |-> "Singleton instance is already set."]
    ELSE [singletonInstance |-> this, error |-> ""]

Singleton_ctor(singleton, this, set) ==
    IF set THEN setSingleton(singleton, this)
    ELSE [singletonInstance |-> singleton, error |-> ""]

\* The mutant of unsetSingleton that leaves singletonInstance alone.
unsetSingleton_keeps(singleton, this) == singleton

unsetSingleton(singleton, this) ==
    IF singleton # this THEN singleton ELSE 0

setSingletonCurrent(singleton, this) == this
unsetSingletonCurrent(singleton, this) == 0

\* Singleton<Manager, false>::get.
Singleton_get(singleton) ==
    IF singleton # 0 THEN [ret |-> singleton, error |-> ""]
    ELSE [ret |-> 0, error |-> "Singleton instance is not set."]

\* Manager::Manager after its base class: no system, the seven built-in
\* events, 'Update' the only ordered one.
Manager_ctor ==
    [data |-> [componentTypes |-> <<>>, systems |-> <<>>,
               entities |-> LinearPool(Entity0), garbageComponents |-> {}],
     componentNames |-> <<>>,
     events |-> [n \in SeqToSet(BuiltinEvents) |-> Event(n, TRUE)],
     orderedEvents |-> <<"Update">>,
     initialized |-> FALSE,
     isRunning |-> FALSE,
     isChanging |-> FALSE,
     locker |-> FALSE]

\* What a Manager call leaves: the Manager, the message of the error thrown
\* ("" for none), the value returned, the sequence of <<event, subscriber>>
\* calls and of <<"lock", 0>>, <<"unlock", 0>> and dispose-pass marks it made,
\* whether an assertion stopped the program, whether it ran into undefined
\* behaviour, whether the call returns at all.
Result(m, error, ret, trace) ==
    [m |-> m, error |-> error, ret |-> ret, trace |-> trace,
     aborted |-> FALSE, ub |-> FALSE, returns |-> TRUE]

\* One subscriber called: StopSubscriber clears isRunning, the others leave
\* the Manager alone.
callSubscriber(m, f) ==
    IF f = StopSubscriber THEN [m EXCEPT !.isRunning = FALSE] ELSE m

\* A subscriber that throws: the exception leaves the loop of runEvent and
\* the callers that do not catch it.
ThrowSubscriber == MaxSubscriptions + 1

RECURSIVE runSubscribers(_, _, _, _)
runSubscribers(m, name, subscribers, trace) ==
    IF subscribers = <<>> THEN Result(m, "", TRUE, trace)
    ELSE IF Head(subscribers) = ThrowSubscriber
    THEN Result(m, "subscriber", FALSE, Append(trace, <<name, Head(subscribers)>>))
    ELSE runSubscribers(callSubscriber(m, Head(subscribers)), name,
                        Tail(subscribers),
                        Append(trace, <<name, Head(subscribers)>>))

runEvent(m, name) ==
    IF name \notin DOMAIN m.events
    THEN Result(m, "Event is not registered.", FALSE, <<>>)
    ELSE runSubscribers(m, name, m.events[name].subscribers, <<>>)

\* Several runEvent calls in a row, stopping at the first that throws.
RECURSIVE runEvents(_, _, _)
runEvents(m, names, trace) ==
    IF names = <<>> THEN Result(m, "", TRUE, trace)
    ELSE LET r == runEvent(m, Head(names))
         IN  IF r.error # "" THEN Result(r.m, r.error, FALSE, trace \o r.trace)
             ELSE runEvents(r.m, Tail(names), trace \o r.trace)

RECURSIVE runOrdered(_, _, _)
runOrdered(m, ordered, trace) ==
    IF ordered = <<>> THEN Result(m, "", TRUE, trace)
    ELSE LET r == runSubscribers(m, Head(ordered),
                                 m.events[Head(ordered)].subscribers, <<>>)
         IN  IF r.error # "" THEN Result(r.m, r.error, FALSE, trace \o r.trace)
             ELSE runOrdered(r.m, Tail(ordered), trace \o r.trace)

runOrderedEvents(m) == runOrdered(m, m.orderedEvents, <<>>)

registerEvent(m, name) ==
    IF name \in DOMAIN m.events
    THEN Result(m, "Event is already registered.", FALSE, <<>>)
    ELSE Result([m EXCEPT !.events = With(@, name, Event(name, FALSE))],
                "", TRUE, <<>>)

\* The first position of an ordered event of the given name, 0 for none.
orderedPosition(ordered, name) ==
    IF \E i \in 1..Len(ordered) : ordered[i] = name
    THEN CHOOSE i \in 1..Len(ordered) :
            /\ ordered[i] = name
            /\ \A j \in 1..(i - 1) : ordered[j] # name
    ELSE 0

\* std::vector::insert before the element at position i (Len + 1 is end()).
insertAt(s, i, x) == SubSeq(s, 1, i - 1) \o <<x>> \o SubSeq(s, i, Len(s))

\* The mutant of registerEventBefore that appends the new event.
registerEventBefore_atEnd(m, newEvent, beforeEvent) ==
    IF newEvent \in DOMAIN m.events
    THEN Result(m, "Event is already registered.", FALSE, <<>>)
    ELSE LET n == [m EXCEPT !.events = With(@, newEvent, Event(newEvent, TRUE))]
             i == orderedPosition(m.orderedEvents, beforeEvent)
         IN  IF i = 0
             THEN Result(n, "Before event is not registered.", FALSE, <<>>)
             ELSE Result([n EXCEPT !.orderedEvents = Append(@, newEvent)],
                         "", TRUE, <<>>)

registerEventBefore(m, newEvent, beforeEvent) ==
    IF newEvent \in DOMAIN m.events
    THEN Result(m, "Event is already registered.", FALSE, <<>>)
    ELSE LET n == [m EXCEPT !.events = With(@, newEvent, Event(newEvent, TRUE))]
             i == orderedPosition(m.orderedEvents, beforeEvent)
         IN  IF i = 0
             THEN Result(n, "Before event is not registered.", FALSE, <<>>)
             ELSE Result([n EXCEPT !.orderedEvents = insertAt(@, i, newEvent)],
                         "", TRUE, <<>>)

registerEventAfter(m, newEvent, afterEvent) ==
    IF newEvent \in DOMAIN m.events
    THEN Result(m, "Event is already registered.", FALSE, <<>>)
    ELSE LET n == [m EXCEPT !.events = With(@, newEvent, Event(newEvent, TRUE))]
             i == orderedPosition(m.orderedEvents, afterEvent)
         IN  IF i = 0
             THEN Result(n, "After event is not registered.", FALSE, <<>>)
             ELSE Result([n EXCEPT !.orderedEvents = insertAt(@, i + 1, newEvent)],
                         "", TRUE, <<>>)

subscribeToEvent(m, name, onEvent) ==
    IF name \notin DOMAIN m.events
    THEN Result(m, "Event is not registered.", FALSE, <<>>)
    ELSE Result([m EXCEPT !.events[name].subscribers = Append(@, onEvent)],
                "", TRUE, <<>>)

\* Manager::has(type) for a system type.
\* std::function::target_type(): the type of the stored callable, not the
\* callable.  The callables std::bind(&T::f, this) makes of two member
\* functions of one class have one type: the callbacks of the model come in
\* pairs of one type, 1 and 2, 3 and 4.
target_type(f) == (f + 1) \div 2

\* The first position of a subscriber of the target type of onEvent, 0 for
\* none.
subscriberPosition(subscribers, onEvent) ==
    LET same == {i \in 1..Len(subscribers) :
                    target_type(subscribers[i]) = target_type(onEvent)}
    IN  IF same = {} THEN 0 ELSE CHOOSE i \in same : \A j \in same : i <= j

\* std::vector::erase of the element at position i
eraseAt(s, i) == SubSeq(s, 1, i - 1) \o SubSeq(s, i + 1, Len(s))

unsubscribeFromEvent(m, name, onEvent) ==
    IF name \notin DOMAIN m.events
    THEN Result(m, "Event is not registered.", FALSE, <<>>)
    ELSE LET i == subscriberPosition(m.events[name].subscribers, onEvent)
         IN  IF i = 0
             THEN Result(m, "Event subscriber not found.", FALSE, <<>>)
             ELSE Result([m EXCEPT !.events[name].subscribers = eraseAt(@, i)],
                         "", TRUE, <<>>)


hasSystem(m, type) == type \in DOMAIN m.data.systems

\* Manager::addSystem of a new system object of type s: its component type
\* and component name, then the system itself, then its initialisation
\* events when the Manager is running.
addSystem(m, s) ==
    IF s \in DOMAIN m.data.componentTypes
    THEN Result(m, "Component is already registered by the other system.",
                FALSE, <<>>)
    ELSE LET m1 == [m EXCEPT !.data.componentTypes = With(@, s, s)]
         IN
         IF s \in DOMAIN m1.componentNames
         THEN Result(m1, "Component name is already registered by the other system.",
                     FALSE, <<>>)
         ELSE LET m2 == [m1 EXCEPT !.componentNames = With(@, s, s)]
              IN
              IF s \in DOMAIN m2.data.systems
              THEN Result(m2, "System is already created.", FALSE, <<>>)
              ELSE LET m3 == [m2 EXCEPT !.data.systems =
                                 With(@, s, [components |-> LinearPool(Component0)])]
                   IN  IF m3.isRunning
                       THEN runEvents(m3, <<"PreInit", "Init", "PostInit">>, <<>>)
                       ELSE Result(m3, "", TRUE, <<>>)

createSystem(m, s) ==
    IF m.isChanging
    THEN Result(m, "Creation of the system inside other create/destroy is not allowed.",
                FALSE, <<>>)
    ELSE LET r == addSystem([m EXCEPT !.isChanging = TRUE], s)
         IN  IF r.error # "" THEN r
             ELSE Result([r.m EXCEPT !.isChanging = FALSE], "", TRUE, r.trace)

destroySystem(m, type) ==
    IF m.isChanging
    THEN Result(m, "Destruction of the system inside other create/destroy is not allowed.",
                FALSE, <<>>)
    ELSE LET m1 == [m EXCEPT !.isChanging = TRUE]
         IN
         IF type \notin DOMAIN m1.data.systems
         THEN Result(m1, "System is not created.", FALSE, <<>>)
         ELSE LET r == IF m1.isRunning
                       THEN runEvents(m1, <<"PreDeinit", "Deinit", "PostDeinit">>, <<>>)
                       ELSE Result(m1, "", TRUE, <<>>)
                  m2 == [r.m EXCEPT !.data.systems = Without(@, type)]
              IN
              IF r.error # "" THEN r
              ELSE IF type \notin DOMAIN m2.componentNames
              THEN Result(m2, "Failed to erase system component name.", FALSE, r.trace)
              ELSE IF type \notin DOMAIN m2.data.componentTypes
              THEN Result([m2 EXCEPT !.componentNames = Without(@, type)],
                          "Failed to erase system component type.", FALSE, r.trace)
              ELSE Result([m2 EXCEPT !.componentNames = Without(@, type),
                                     !.data.componentTypes = Without(@, type),
                                     !.isChanging = FALSE],
                          "", TRUE, r.trace)

\* Manager::tryDestroySystem: the set of results it can have. It returns
\* false for a system that is found; for one that is not found it reads and
\* erases through the end() iterator and deletes what it read, which is
\* undefined: the program stops, or the call returns true with the registries
\* as they were.
tryDestroySystem(m, type) ==
    IF m.isChanging
    THEN {Result(m, "Destruction of the system inside other create/destroy is not allowed.",
                 FALSE, <<>>)}
    ELSE IF type \in DOMAIN m.data.systems
    THEN {Result(m, "", FALSE, <<>>)}
    ELSE {[Result([m EXCEPT !.isChanging = TRUE], "", FALSE, <<>>)
              EXCEPT !.aborted = TRUE, !.ub = TRUE],
          [Result(m, "", TRUE, <<>>) EXCEPT !.ub = TRUE]}

\* The mutant of initialize that runs PostInit before Init.
initialize_swapped(m) ==
    IF m.initialized
    THEN Result(m, "Manager is already initialized.", FALSE, <<>>)
    ELSE LET r == runEvents(m, <<"PreInit", "PostInit", "Init">>, <<>>)
         IN  IF r.error # "" THEN r
             ELSE Result([r.m EXCEPT !.initialized = TRUE], "", TRUE, r.trace)

initialize(m) ==
    IF m.initialized
    THEN Result(m, "Manager is already initialized.", FALSE, <<>>)
    ELSE LET r == runEvents(m, <<"PreInit", "Init", "PostInit">>, <<>>)
         IN  IF r.error # "" THEN r
             ELSE Result([r.m EXCEPT !.initialized = TRUE], "", TRUE, r.trace)

\* std::mutex: lock() of a mutex that is held does not return.
lock(m) ==
    IF m.locker THEN [Result(m, "", FALSE, <<>>) EXCEPT !.returns = FALSE]
    ELSE Result([m EXCEPT !.locker = TRUE], "", TRUE, <<<<"lock", 0>>>>)

tryLock(m) ==
    IF m.locker THEN Result(m, "", FALSE, <<>>)
    ELSE Result([m EXCEPT !.locker = TRUE], "", TRUE, <<<<"lock", 0>>>>)

unlock(m) == Result([m EXCEPT !.locker = FALSE], "", TRUE, <<<<"unlock", 0>>>>)

\* The three dispose passes of update, with a mark in the trace for each.
disposePasses(m) ==
    LET marks == <<<<"disposeGarbageComponents", 0>>, <<"disposeEntities", 0>>,
                   <<"disposeSystemComponents", 0>>>>
        stopped(data, k) ==
            [Result([m EXCEPT !.data = data], "", FALSE, SubSeq(marks, 1, k))
                EXCEPT !.aborted = TRUE]
    IN  Bind(disposeGarbageComponents(m.data), LAMBDA g :
           IF g.aborted THEN stopped(m.data, 1)
           ELSE Bind(disposeEntities(g.m), LAMBDA e :
                   IF e.aborted THEN stopped(g.m, 2)
                   ELSE Result([m EXCEPT !.data = disposeSystemComponents(e.m).m],
                               "", TRUE, marks)))

\* The mutant of update that leaves the locker alone.
update_noLock(m) ==
    IF ~m.initialized
    THEN Result(m, "Manager is not initialized.", FALSE, <<>>)
    ELSE Bind(runOrderedEvents(m), LAMBDA o :
           IF o.error # "" THEN o
           ELSE Bind(disposePasses(o.m), LAMBDA d :
                  [d EXCEPT !.trace = o.trace \o @]))

update(m) ==
    IF ~m.initialized
    THEN Result(m, "Manager is not initialized.", FALSE, <<>>)
    ELSE Bind(lock(m), LAMBDA l :
           IF ~l.returns THEN l
           ELSE Bind(runOrderedEvents(l.m), LAMBDA o :
                  IF o.error # ""
                  THEN Result(o.m, o.error, FALSE, l.trace \o o.trace)
                  ELSE Bind(disposePasses(o.m), LAMBDA d :
                         IF d.aborted
                         THEN [d EXCEPT !.trace = l.trace \o o.trace \o @]
                         ELSE Bind(unlock(d.m), LAMBDA u :
                                Result(u.m, "", TRUE,
                                       l.trace \o o.trace \o d.trace \o u.trace)))))

\* Manager::start: the loop ends after the update in which a subscriber
\* cleared isRunning; the subscribers of this model do the same on every
\* update, so a first update that leaves isRunning set is followed by the
\* same updates for ever.
start(m) ==
    IF ~m.initialized
    THEN Result(m, "Manager is not initialized.", FALSE, <<>>)
    ELSE Bind(update([m EXCEPT !.isRunning = TRUE]), LAMBDA r :
           IF r.aborted \/ ~r.returns \/ r.error # "" \/ ~r.m.isRunning THEN r
           ELSE [r EXCEPT !.returns = FALSE])

\* Manager::~Manager, then what its base class leaves of singletonInstance.
\* An exception that leaves a destructor, and a failed assertion, stop the
\* program.
Manager_dtor(m, singleton, this) ==
    LET r == IF m.initialized
             THEN runEvents(m, <<"PreDeinit", "Deinit", "PostDeinit">>, <<>>)
             ELSE Result(m, "", TRUE, <<>>)
        c == clear(r.m.data.entities, FALSE, Entity0)
    IN  IF r.error # "" \/ c.threw \/ r.m.isChanging
        THEN [singletonInstance |-> singleton, aborted |-> TRUE, trace |-> r.trace]
        ELSE [singletonInstance |-> unsetSingleton(singleton, this),
              aborted |-> FALSE, trace |-> r.trace]


\* ------------------------------------------------------------------ Ref<T>
\* include/linear-pool.hpp, struct Ref: an item identifier with a usage
\* counter on the heap.  A Ref object is [counter, item]; counter is the
\* address of a std::atomic_int64_t, 0 for nullptr; item 0 is the null ID.
\* The heap maps an address to the counter allocated there.
RefItems == 0..MaxRefItems
RefSlots == 1..MaxRefs
Threads == 1..NumThreads
Addresses == 1..MaxRefs
Unallocated == [live |-> FALSE, value |-> 0]
NullRef == [counter |-> 0, item |-> 0]
NoObject == [live |-> FALSE, counter |-> 0, item |-> 0]
Idle == [at |-> "idle"]

\* a Ref object that has been constructed and not yet destructed
Object(r) == [live |-> TRUE, counter |-> r.counter, item |-> r.item]

\* an access to the counter at address a is defined only while it is allocated
allocated(heap, a) == a \in DOMAIN heap /\ heap[a].live

\* counter->fetch_add(1, ...): the value before, and the heap after
fetch_add(heap, a) ==
    IF allocated(heap, a)
    THEN [heap |-> [heap EXCEPT ![a].value = @ + 1], old |-> heap[a].value, ub |-> FALSE]
    ELSE [heap |-> heap, old |-> 0, ub |-> TRUE]

fetch_sub_returnsNew(heap, a) ==
    IF allocated(heap, a)
    THEN [heap |-> [heap EXCEPT ![a].value = @ - 1], old |-> heap[a].value - 1, ub |-> FALSE]
    ELSE [heap |-> heap, old |-> 0, ub |-> TRUE]

\* counter->fetch_sub(1, ...)
fetch_sub(heap, a) ==
    IF allocated(heap, a)
    THEN [heap |-> [heap EXCEPT ![a].value = @ - 1], old |-> heap[a].value, ub |-> FALSE]
    ELSE [heap |-> heap, old |-> 0, ub |-> TRUE]

\* delete counter
deleteCounter(heap, a) ==
    IF allocated(heap, a)
    THEN [heap |-> [heap EXCEPT ![a] = Unallocated], ub |-> FALSE]
    ELSE [heap |-> heap, ub |-> TRUE]

\* counter->load(...)
load(heap, a) == IF allocated(heap, a) THEN heap[a].value ELSE 0

\* explicit Ref(ID<T> item); a is the address operator new returns
Ref_ID(heap, a, item) ==
    IF item # 0
    THEN [heap |-> [heap EXCEPT ![a] = [live |-> TRUE, value |-> 1]],
          this |-> [counter |-> a, item |-> item]]
    ELSE [heap |-> heap, this |-> [counter |-> 0, item |-> item]]

\* if (item && counter->fetch_sub(1) == 1) delete counter;
release(heap, this) ==
    IF this.item = 0 THEN [heap |-> heap, ub |-> FALSE]
    ELSE LET f == fetch_sub(heap, this.counter)
         IN IF f.ub THEN [heap |-> heap, ub |-> TRUE]
            ELSE IF f.old = 1 THEN deleteCounter(f.heap, this.counter)
            ELSE [heap |-> f.heap, ub |-> FALSE]

\* ~Ref()
Ref_dtor(heap, this) == release(heap, this)

Ref_copy_noAdd(heap, ref) ==
    IF ref.item = 0 THEN [heap |-> heap, this |-> NullRef, ub |-> FALSE]
    ELSE [heap |-> heap, this |-> ref, ub |-> FALSE]

\* Ref(const Ref& ref)
Ref_copy(heap, ref) ==
    IF ref.item = 0 THEN [heap |-> heap, this |-> NullRef, ub |-> FALSE]
    ELSE LET f == fetch_add(heap, ref.counter)
         IN [heap |-> f.heap, this |-> [counter |-> ref.counter, item |-> ref.item],
             ub |-> f.ub]

\* Ref(Ref&& ref)
Ref_move(ref) ==
    [this |-> [counter |-> ref.counter, item |-> ref.item], ref |-> NullRef]

\* Ref& operator=(const Ref& ref); same is this == &ref
Ref_copyAssign(heap, this, ref, same) ==
    IF same THEN [heap |-> heap, this |-> this, ub |-> FALSE]
    ELSE LET r == release(heap, this)
             f == IF ref.item # 0 THEN fetch_add(r.heap, ref.counter)
                  ELSE [heap |-> r.heap, old |-> 0, ub |-> FALSE]
         IN IF r.ub THEN [heap |-> heap, this |-> this, ub |-> TRUE]
            ELSE [heap |-> f.heap,
                  this |-> [counter |-> ref.counter, item |-> ref.item],
                  ub |-> f.ub]

\* Ref& operator=(Ref&& ref)
Ref_moveAssign(heap, this, ref, same) ==
    IF same THEN [heap |-> heap, this |-> this, ref |-> ref, ub |-> FALSE]
    ELSE LET r == release(heap, this)
         IN IF r.ub THEN [heap |-> heap, this |-> this, ref |-> ref, ub |-> TRUE]
            ELSE [heap |-> r.heap,
                  this |-> [counter |-> ref.counter, item |-> ref.item],
                  ref |-> NullRef, ub |-> FALSE]

\* int64_t getRefCount() const
getRefCount(heap, this) == IF this.item = 0 THEN 0 ELSE load(heap, this.counter)

\* bool isLastRef() const
isLastRef(heap, this) == IF this.item = 0 THEN FALSE ELSE load(heap, this.counter) = 1

Ref_eq_counters(l, r) == l.item = r.item /\ l.counter = r.counter

\* bool operator==(const Ref& v) const
Ref_eq(l, r) == l.item = r.item

\* bool operator!=(const Ref& v) const
Ref_ne(l, r) == l.item # r.item

\* bool operator<(const Ref& v) const
Ref_lt(l, r) == l.item < r.item


\* ------------------------------------------------------------------ state
VARIABLES
    pool,       \* the LinearPool<T, true> under test
    alive,      \* handles whose record was created and not yet recycled
    held,       \* handles the client got from create() and has not destroyed
    nLive,      \* records created minus records recycled
    written,    \* per handle: the content the client last wrote
    finCalls,   \* per handle: finalizer calls on the record now in the slot
    fresh,      \* only create() calls so far on a new or cleared pool
    view,       \* a View the client keeps, with what happened since get()
    manager,    \* the Manager: entity pool, systems' pools, garbage set
    owned,      \* entities the client got from createEntity() and has not destroyed
    refs,       \* the Ref<T> objects of the client, per storage slot
    counters,   \* the heap of reference counters, per address
    pc,         \* per thread: the call on a Ref it is in the middle of
    refUB,      \* a freed counter was read, written or freed again
    dir,        \* one Entity driven through its component directory alone
    present,    \* per type key: the instance added and not yet removed, or 0
    rpool,      \* a LinearPool whose callbacks call back into it
    running,    \* the call on rpool that is in progress, suspended in a callback
    lm,         \* a Manager driven through its systems, events and life cycle
    managers,   \* the Manager objects of the singleton client, per storage slot
    singletonInstance,  \* Singleton<Manager>::singletonInstance, 0 for nullptr
    plain,      \* a LinearPool<T, false>
    op          \* the last call and what it returned

poolVars == <<pool, alive, held, nLive, written, finCalls, fresh, view>>
managerVars == <<manager, owned>>
refVars == <<refs, counters, pc, refUB>>
\* what the calls on one object leave alone: the other objects of the program
dirVars == <<dir, present>>
reentVars == <<rpool, running>>
lifeVars == <<lm>>
singletonVars == <<managers, singletonInstance>>
plainVars == <<plain>>
laterVars == <<lifeVars, singletonVars, plainVars>>
outsidePool == <<managerVars, refVars, dirVars, reentVars, laterVars>>
outsideManager == <<poolVars, refVars, dirVars, reentVars, laterVars>>
outsideRef == <<poolVars, managerVars, dirVars, reentVars, laterVars>>
outsideDir == <<poolVars, managerVars, refVars, reentVars, laterVars>>
outsideReent == <<poolVars, managerVars, refVars, dirVars, laterVars>>
earlierVars == <<poolVars, managerVars, refVars, dirVars, reentVars>>
outsideLife == <<earlierVars, singletonVars, plainVars>>
outsideSingleton == <<earlierVars, lifeVars, plainVars>>
outsidePlain == <<earlierVars, lifeVars, singletonVars>>
vars == <<pool, alive, held, nLive, written, finCalls, fresh, view, manager, owned,
          refs, counters, pc, refUB, dir, present, rpool, running,
          lm, managers, singletonInstance, plain, op>>

Handles == 1..(MaxOccupancy + 1)
\* type keys (hash codes) of the directory client
Keys == 1..MaxKey
NoCall == [name |-> ""]
Data == 1..MaxData
NoView == [index |-> 0]

\* what a kept view has seen since it was obtained
noteCall(v, grew, appended, destroyed, cleared) ==
    IF v = NoView THEN v
    ELSE [v EXCEPT !.growOrDestroy = @ \/ grew \/ destroyed,
                   !.appendOrDestroy = @ \/ appended \/ destroyed,
                   !.cleared = @ \/ cleared]

PoolInit ==
    /\ pool = LinearPool(T0)
    /\ alive = {}
    /\ held = {}
    /\ nLive = 0
    /\ written = [h \in Handles |-> T0]
    /\ finCalls = [h \in Handles |-> 0]
    /\ fresh = TRUE
    /\ view = NoView

ManagerInit ==
    /\ manager = Manager
    /\ owned = {}

\* no Ref constructed yet, no counter allocated, no call in progress
RefInit ==
    /\ refs = [s \in RefSlots |-> NoObject]
    /\ counters = [a \in Addresses |-> Unallocated]
    /\ pc = [t \in Threads |-> Idle]
    /\ refUB = FALSE

\* Entity(): no entry, no array
DirInit ==
    /\ dir = Entity0
    /\ present = [k \in Keys |-> 0]

ReentInit ==
    /\ rpool = LinearPool(T0)
    /\ running = NoCall

\* One Manager constructed with setSingleton = false.
LifeInit == lm = Manager_ctor

\* No Manager object yet.
NoManager == [alive |-> FALSE]
SingletonInit ==
    /\ managers = [i \in 1..MaxManagers |-> NoManager]
    /\ singletonInstance = 0

\* A LinearPool<T, false> just constructed.
PlainInit == plain = LinearPool(T0)

Init ==
    /\ PoolInit
    /\ ManagerInit
    /\ RefInit
    /\ DirInit
    /\ ReentInit
    /\ LifeInit
    /\ SingletonInit
    /\ PlainInit
    /\ op = [name |-> "new"]

\* id = pool.create(arg), on a pool the model lets use maxOcc slots
CreateWithin(arg, maxOcc) ==
    LET r == create(pool, T(arg), T0)
        appended == pool.freeItems = <<>>
        grew == appended /\ pool.occupancy = pool.capacity
    IN /\ appended => (pool.occupancy < maxOcc /\ pool.version < MaxVersion)
       /\ ~r.threw
       /\ pool' = r.pool
       /\ alive' = alive \cup {r.id}
       /\ held' = held \cup {r.id}
       /\ nLive' = nLive + 1
       /\ written' = [written EXCEPT ![r.id] = T(arg)]
       /\ finCalls' = [finCalls EXCEPT ![r.id] = 0]
       /\ view' = noteCall(view, grew, appended, FALSE, FALSE)
       /\ op' = [name |-> "create", arg |-> arg, id |-> r.id, reused |-> ~appended]
       /\ UNCHANGED <<fresh, outsidePool>>

Create(arg) == CreateWithin(arg, MaxOccupancy)

\* pool.get(h)->ID = d, the view used in place
Write(h, d) ==
    LET v == get(pool, h)
    IN /\ h \in held
       /\ ~v.aborted
       /\ ~viewThrows(v, pool)
       /\ pool.items[v.index].ID # d
       /\ pool' = [pool EXCEPT !.items[v.index].ID = d]
       /\ written' = [written EXCEPT ![h].ID = d]
       /\ fresh' = FALSE
       /\ op' = [name |-> "write", h |-> h]
       /\ UNCHANGED <<alive, held, nLive, finCalls, view, outsidePool>>

\* pool.destroy(h), h null or a handle the client holds
Destroy(h) ==
    LET r == destroy(pool, h)
    IN /\ h \in held \cup {0}
       /\ pool.version < MaxVersion
       /\ ~r.aborted
       /\ pool' = r.pool
       /\ held' = held \ {h}
       /\ fresh' = FALSE
       /\ view' = noteCall(view, FALSE, FALSE, h # 0, FALSE)
       /\ op' = [name |-> "destroy", h |-> h]
       /\ UNCHANGED <<alive, nLive, written, finCalls, outsidePool>>

\* handles of the calls that returned true
Finalized(calls) == {calls[k].h : k \in {j \in 1..Len(calls) : calls[j].ok}}

\* pool.dispose(); res[k] is the answer of the k-th finalizer call
Dispose(res) ==
    LET r == dispose(pool, res, T0)
        done == Finalized(r.calls)
    IN /\ ~r.threw
       /\ \A k \in 1..Len(r.calls) :
             ~r.calls[k].ok => finCalls[r.calls[k].h] < MaxDefer
       /\ pool' = r.pool
       /\ alive' = alive \ done
       /\ nLive' = nLive - Cardinality(done)
       /\ finCalls' = [h \in Handles |->
                          IF h \in done THEN 0
                          ELSE finCalls[h] + Occurrences([k \in 1..Len(r.calls) |-> r.calls[k].h], h)]
       /\ written' = [h \in Handles |-> IF h \in done THEN T0 ELSE written[h]]
       /\ fresh' = FALSE
       /\ op' = [name |-> "dispose", calls |-> r.calls,
                 runs |-> [h \in done |-> finCalls[h] + 1]]
       /\ UNCHANGED <<held, view, outsidePool>>

\* pool.clear(destroyItems)
Clear(destroyItems) ==
    LET r == clear(pool, destroyItems, T0)
    IN /\ ~r.threw
       /\ pool.occupancy > 0
       /\ pool' = r.pool
       /\ alive' = {}
       /\ held' = {}
       /\ nLive' = 0
       /\ written' = [h \in Handles |-> T0]
       /\ finCalls' = [h \in Handles |-> 0]
       /\ fresh' = TRUE
       /\ view' = noteCall(view, FALSE, FALSE, FALSE, TRUE)
       /\ op' = [name |-> "clear", calls |-> r.calls]
       /\ UNCHANGED outsidePool

\* view = pool.get(h), kept by the client; h may be awaiting dispose
GetView(h) ==
    LET v == get(pool, h)
    IN /\ h \in alive
       /\ ~v.aborted
       /\ view' = [index |-> v.index, version |-> v.version,
                   growOrDestroy |-> FALSE, appendOrDestroy |-> FALSE,
                   cleared |-> FALSE]
       /\ view' # view
       /\ op' = [name |-> "get", h |-> h]
       /\ UNCHANGED <<pool, alive, held, nLive, written, finCalls, fresh, outsidePool>>

Next ==
    \/ \E arg \in Data : Create(arg)
    \/ \E h \in Handles, d \in Data : Write(h, d)
    \/ \E h \in Handles \cup {0} : Destroy(h)
    \/ \E res \in [1..Len(pool.garbageItems) -> BOOLEAN] : Dispose(res)
    \/ \E b \in BOOLEAN : Clear(b)

Spec == Init /\ [][Next]_vars

\* A pool of TestComponent (tests/test-ecsm.cpp: destroy() always returns
\* true) whose client also keeps a View across calls.  One more slot than
\* in Spec, so that a create() that appends without growing the block
\* (the fourth) happens while a view is kept.
ViewHandles == 1..(MaxOccupancy + 1)

DisposeAll == Dispose([k \in 1..Len(pool.garbageItems) |-> TRUE])

ViewNext ==
    \/ CreateWithin(1, MaxOccupancy + 1)
    \/ \E h \in ViewHandles \cup {0} : Destroy(h)
    \/ DisposeAll
    \/ \E b \in BOOLEAN : Clear(b)
    \/ \E h \in ViewHandles : GetView(h)

ViewSpec == Init /\ [][ViewNext]_vars

\* ------------------------------------------------------------------ raw pool client
\* RawSpec drives the pool from a client that passes destroy() any handle
\* the debug assertions of destroy() let through, also one that dispose()
\* has already put on the free list.  held is the set of handles a create()
\* returned and no destroy() was given since.
RawCreate ==
    \E r \in {create(pool, T(1), T0)} :
       /\ ~r.threw
       /\ r.pool.occupancy <= MaxOccupancy
       /\ r.pool.version <= MaxVersion
       /\ pool' = r.pool
       /\ held' = held \cup {r.id}
       /\ op' = [name |-> "create", id |-> r.id, held |-> r.id \in held]
       /\ UNCHANGED <<alive, nLive, written, finCalls, fresh, view, outsidePool>>

RawDestroy(h) ==
    \E r \in {destroy(pool, h)} :
       /\ ~r.aborted
       /\ r.pool.version <= MaxVersion
       /\ pool' = r.pool
       /\ held' = held \ {h}
       /\ op' = [name |-> "destroy", id |-> h]
       /\ UNCHANGED <<alive, nLive, written, finCalls, fresh, view, outsidePool>>

RawDispose ==
    \E res \in [1..Len(pool.garbageItems) -> BOOLEAN] :
       \E r \in {dispose(pool, res, T0)} :
          /\ ~r.threw
          /\ pool.garbageItems # <<>>
          /\ pool' = r.pool
          /\ op' = [name |-> "dispose", calls |-> r.calls]
          /\ UNCHANGED <<alive, held, nLive, written, finCalls, fresh, view,
                         outsidePool>>

RawNext ==
    \/ RawCreate
    \/ \E h \in Handles : RawDestroy(h)
    \/ RawDispose

RawSpec == Init /\ [][RawNext]_vars


\* ------------------------------------------------------------------ Manager client
\* MgrSpec drives a Manager from a client that passes only entities it got
\* from createEntity() and has not destroyed, and that reclaims the garbage
\* set before it disposes entities (the order of update()).

\* version bumps of the component pools of the systems 1..s
RECURSIVE componentChanges(_, _)
componentChanges(m, s) ==
    IF s = 0 THEN 0
    ELSE m.systems[s].components.version + componentChanges(m, s - 1)

\* the pools stay within the model's bounds
Bounded(m) ==
    /\ m.entities.occupancy <= MaxEntities
    /\ \A s \in DOMAIN m.systems :
          m.systems[s].components.occupancy <= MaxComponents
    /\ m.entities.version + componentChanges(m, NumTypes) <= MaxChanges

\* an assertion has stopped the program
Aborted == op.name # "new" /\ op.aborted

\* the record of a Manager call: its arguments, the error thrown, whether an
\* assertion stopped it, and the component ID it concerned
Call(name, entity, type, r, id) ==
    [name |-> name, entity |-> entity, type |-> type,
     error |-> r.error, aborted |-> r.aborted, id |-> id]

CreateEntity ==
    LET r == createEntity(manager)
    IN /\ ~Aborted
       /\ Bounded(r.m)
       /\ manager' = r.m
       /\ owned' = owned \cup {r.id}
       /\ op' = Call("createEntity", r.id, 0, r, 0)
       /\ UNCHANGED outsideManager

\* manager.destroy(entity)
DestroyEntity(entity) ==
    LET r == Manager_destroy(manager, entity)
    IN /\ ~Aborted
       /\ entity \in owned
       /\ Bounded(r.m)
       /\ manager' = r.m
       /\ owned' = owned \ {entity}
       /\ op' = Call("destroy", entity, 0, r, 0)
       /\ UNCHANGED outsideManager

\* manager.add(entity, type); a call that throws still leaves its mark
Add(entity, type) ==
    LET r == add(manager, entity, type)
    IN /\ ~Aborted
       /\ entity \in owned
       /\ Bounded(r.m)
       /\ manager' = r.m
       /\ op' = Call("add", entity, type, r, r.id)
       /\ UNCHANGED <<outsideManager, owned>>

\* manager.remove(entity, type); the call record keeps the component ID the
\* directory held for the type when the call was made
Remove(entity, type) ==
    LET r == remove(manager, entity, type)
        i == findComponent(manager.entities.items[entity], type)
    IN /\ ~Aborted
       /\ entity \in owned
       /\ manager' = r.m
       /\ op' = Call("remove", entity, type, r,
                     IF i = 0 THEN 0
                     ELSE manager.entities.items[entity].components[i].instance)
       /\ op' # op
       /\ UNCHANGED <<outsideManager, owned>>

DisposeGarbageComponents ==
    LET r == disposeGarbageComponents(manager)
    IN /\ ~Aborted
       /\ manager.garbageComponents # {}
       /\ Bounded(r.m)
       /\ manager' = r.m
       /\ op' = Call("disposeGarbageComponents", 0, 0, r, 0)
       /\ UNCHANGED <<outsideManager, owned>>

DisposeEntities ==
    LET r == disposeEntities(manager)
    IN /\ ~Aborted
       /\ manager.garbageComponents = {}
       /\ manager.entities.garbageItems # <<>>
       /\ Bounded(r.m)
       /\ manager' = r.m
       /\ op' = Call("disposeEntities", 0, 0, r, 0)
       /\ UNCHANGED <<outsideManager, owned>>

DisposeSystemComponents ==
    LET r == disposeSystemComponents(manager)
    IN /\ ~Aborted
       /\ \E s \in DOMAIN manager.systems :
             manager.systems[s].components.garbageItems # <<>>
       /\ manager' = r.m
       /\ op' = Call("disposeSystemComponents", 0, 0, r, 0)
       /\ UNCHANGED <<outsideManager, owned>>

EntityHandles == 1..MaxEntities

MgrNext ==
    \/ CreateEntity
    \/ \E e \in EntityHandles : DestroyEntity(e)
    \/ \E e \in EntityHandles, t \in 1..(NumTypes + 1) : Add(e, t)
    \/ \E e \in EntityHandles, t \in 1..(NumTypes + 1) : Remove(e, t)
    \/ DisposeGarbageComponents
    \/ DisposeEntities
    \/ DisposeSystemComponents

MgrSpec == Init /\ [][MgrNext]_vars

\* ------------------------------------------------------------------ plain pool client
\* PlainSpec drives a LinearPool<T, false>, a pool whose items have no
\* destroy(): create, destroy of a live handle, dispose and clear with
\* either argument.
PlainLive == (1..plain.occupancy)
                \ (SeqToSet(plain.freeItems) \cup SeqToSet(plain.garbageItems))

PlainCreate(arg) ==
    \E r \in {create(plain, T(arg), T0)} :
       /\ ~r.threw
       /\ r.pool.occupancy <= MaxOccupancy
       /\ r.pool.version <= MaxVersion
       /\ plain' = r.pool
       /\ op' = [name |-> "create", id |-> r.id]
       /\ UNCHANGED outsidePlain

PlainDestroy(h) ==
    \E r \in {destroy(plain, h)} :
       /\ h \in PlainLive
       /\ ~r.aborted
       /\ r.pool.version <= MaxVersion
       /\ plain' = r.pool
       /\ op' = [name |-> "destroy", id |-> h]
       /\ UNCHANGED outsidePlain

PlainDispose ==
    \E r \in {disposePlain(plain, T0)} :
       /\ ~r.threw
       /\ plain.garbageItems # <<>>
       /\ plain' = r.pool
       /\ op' = [name |-> "dispose"]
       /\ UNCHANGED outsidePlain

\* plain.clear(destroyItems); a call that throws leaves the client going
PlainClear(destroyItems) ==
    \E r \in {LinearPool_clear(plain, FALSE, destroyItems, T0)} :
       /\ plain.occupancy > 0
       /\ plain' = r.pool
       /\ op' = [name |-> "clear", destroyItems |-> destroyItems,
                 threw |-> r.threw, error |-> r.error]
       /\ UNCHANGED outsidePlain

PlainNext ==
    \/ \E arg \in Data : PlainCreate(arg)
    \/ \E h \in Handles : PlainDestroy(h)
    \/ PlainDispose
    \/ \E destroyItems \in BOOLEAN : PlainClear(destroyItems)

PlainSpec == Init /\ [][PlainNext]_vars

\* ------------------------------------------------------------------ update client
\* UpdSpec drives the Manager of MgrSpec, with its systems created and
\* initialize() done, through createEntity, destroy, add, remove,
\* disposeGarbageComponents, disposeEntities and update.  The client adds a
\* component to an entity that has none of the type and removes one that the
\* entity has and that is not yet removed.

UpdBounded(m) ==
    /\ m.entities.occupancy <= MaxEntities
    /\ \A s \in DOMAIN m.systems :
          m.systems[s].components.occupancy <= MaxComponents
    /\ m.entities.version + componentChanges(m, NumTypes) <= MaxPassChanges

UpdStep(name, entity, type, r, id, nowOwned) ==
    /\ ~Aborted
    /\ \E result \in {r} :
          /\ UpdBounded(result.m)
          /\ manager' = result.m
          /\ op' = Call(name, entity, type, result, id)
    /\ owned' = nowOwned
    /\ op' # op
    /\ UNCHANGED outsideManager

\* The Manager of ecsm.cpp around the data of MgrSpec's Manager.
Initialized(data) == [Manager_ctor EXCEPT !.data = data, !.initialized = TRUE]

UpdCreateEntity ==
    LET r == createEntity(manager)
    IN  UpdStep("createEntity", r.id, 0, r, 0, owned \cup {r.id})

UpdDestroy(entity) ==
    LET r == Manager_destroy(manager, entity)
    IN  entity \in owned
        /\ UpdStep("destroy", entity, 0, r, 0, owned \ {entity})

UpdAdd(entity, type) ==
    LET r == add(manager, entity, type)
    IN  /\ entity \in owned
        /\ findComponent(manager.entities.items[entity], type) = 0
        /\ UpdStep("add", entity, type, r, 0, owned)

UpdRemove(entity, type) ==
    LET r == remove(manager, entity, type)
    IN  /\ entity \in owned
        /\ findComponent(manager.entities.items[entity], type) # 0
        /\ <<type, entity>> \notin manager.garbageComponents
        /\ UpdStep("remove", entity, type, r, 0, owned)

\* The record of a pass keeps the number of garbage pairs it was called with.
UpdDisposeGarbageComponents ==
    LET r == disposeGarbageComponents(manager)
    IN  manager.garbageComponents # {}
        /\ UpdStep("disposeGarbageComponents", 0, 0, r,
                   Cardinality(manager.garbageComponents), owned)

\* disposeEntities() called on its own, whatever the garbage set contains.
UpdDisposeEntities ==
    LET r == disposeEntities(manager)
    IN  manager.entities.garbageItems # <<>>
        /\ UpdStep("disposeEntities", 0, Cardinality(manager.garbageComponents), r,
                   Len(manager.entities.garbageItems), owned)

\* The record of an update keeps the number of garbage pairs and the number
\* of destroyed entities it was called with.
UpdUpdate ==
    \E u \in {update(Initialized(manager))} :
       UpdStep("update", 0, Cardinality(manager.garbageComponents),
               [m |-> u.m.data, error |-> u.error, aborted |-> u.aborted],
               Len(manager.entities.garbageItems), owned)

UpdNext ==
    \/ UpdCreateEntity
    \/ \E e \in EntityHandles : UpdDestroy(e)
    \/ \E e \in EntityHandles, t \in Types : UpdAdd(e, t)
    \/ \E e \in EntityHandles, t \in Types : UpdRemove(e, t)
    \/ UpdDisposeGarbageComponents
    \/ UpdDisposeEntities
    \/ UpdUpdate

UpdSpec == Init /\ [][UpdNext]_vars


\* ------------------------------------------------------------------ duplicate client
\* DupSpec drives the same Manager through createEntity, add, remove,
\* duplicate and disposeGarbageComponents.
UpdDuplicate(entity, mallocNull) ==
    \E r \in {duplicate(manager, entity, mallocNull)} :
       /\ entity \in owned
       /\ UpdStep("duplicate", entity, 0, r, r.id, owned \cup {r.id})

DupNext ==
    \/ UpdCreateEntity
    \/ \E e \in EntityHandles, t \in Types : UpdAdd(e, t)
    \/ \E e \in EntityHandles, t \in Types : UpdRemove(e, t)
    \/ \E e \in EntityHandles, mallocNull \in BOOLEAN : UpdDuplicate(e, mallocNull)
    \/ UpdDisposeGarbageComponents

DupSpec == Init /\ [][DupNext]_vars


\* ------------------------------------------------------------------ life-cycle client
\* A client of one Manager's events and life cycle. A call that stopped the
\* program or does not return is the last one.

LifeCall(name, arg, other, r) ==
    [name |-> name, arg |-> arg, other |-> other, error |-> r.error,
     ret |-> r.ret, trace |-> r.trace, aborted |-> r.aborted, ub |-> r.ub,
     returns |-> r.returns]

LifeGoing == IF op.name = "new" THEN TRUE ELSE op.returns /\ ~op.aborted

LifeStep(name, arg, other, r) ==
    /\ LifeGoing
    /\ \E result \in {r} :
          /\ lm' = result.m
          /\ op' = LifeCall(name, arg, other, result)
    /\ UNCHANGED outsideLife

subscriptions(m) ==
    LET RECURSIVE total(_)
        total(names) ==
            IF names = {} THEN 0
            ELSE LET n == CHOOSE x \in names : TRUE
                 IN  Len(m.events[n].subscribers) + total(names \ {n})
    IN  total(DOMAIN m.events)

RegisterEvent(name) == LifeStep("registerEvent", name, "", registerEvent(lm, name))

RegisterEventBefore(newEvent, beforeEvent) ==
    LifeStep("registerEventBefore", newEvent, beforeEvent,
             registerEventBefore(lm, newEvent, beforeEvent))

RegisterEventAfter(newEvent, afterEvent) ==
    LifeStep("registerEventAfter", newEvent, afterEvent,
             registerEventAfter(lm, newEvent, afterEvent))

\* The client subscribes a function of its own each time: the k-th
\* subscription is of function k.
SubscribeToEvent(name) ==
    /\ subscriptions(lm) < MaxSubscriptions
    /\ LifeStep("subscribeToEvent", name, "",
                subscribeToEvent(lm, name, subscriptions(lm) + 1))

Initialize == LifeStep("initialize", "", "", initialize(lm))
Update == LifeStep("update", "", "", update(lm))
Start == LifeStep("start", "", "", start(lm))
Lock == LifeStep("lock", "", "", lock(lm))
TryLock == LifeStep("tryLock", "", "", tryLock(lm))
\* The client unlocks what it has locked.
Unlock == lm.locker /\ LifeStep("unlock", "", "", unlock(lm))

\* The dispose passes called on their own.
LifeDispose(name, r) ==
    LifeStep(name, "", "",
             [Result([lm EXCEPT !.data = r.m], "", TRUE, <<>>)
                 EXCEPT !.aborted = r.aborted])

LifeDisposeGarbageComponents ==
    LifeDispose("disposeGarbageComponents", disposeGarbageComponents(lm.data))
LifeDisposeEntities == LifeDispose("disposeEntities", disposeEntities(lm.data))
LifeDisposeSystemComponents ==
    LifeDispose("disposeSystemComponents", disposeSystemComponents(lm.data))

\* The client of the life cycle: subscriptions to the built-in events of
\* initialize and update, the three life-cycle calls, the dispose passes and
\* the lock.
LifeNext ==
    \/ \E n \in {"PreInit", "Init", "PostInit", "Update"} : SubscribeToEvent(n)
    \/ Initialize
    \/ Update
    \/ Start
    \/ LifeDisposeGarbageComponents
    \/ LifeDisposeEntities
    \/ LifeDisposeSystemComponents
    \/ Lock
    \/ TryLock
    \/ Unlock

LifeSpec == Init /\ [][LifeNext]_vars

\* The client of FailSpec may also subscribe a function that throws.
SubscribeThrowing(name) ==
    /\ subscriptions(lm) < MaxSubscriptions
    /\ LifeStep("subscribeToEvent", name, "",
                subscribeToEvent(lm, name, ThrowSubscriber))

FailNext ==
    \/ LifeNext
    \/ \E n \in {"Init", "Update"} : SubscribeThrowing(n)

FailSpec == Init /\ [][FailNext]_vars

\* The client takes its new names in the order of NewNames: the name of its
\* next registration, if it has one left.
NextNames ==
    LET k == Cardinality(NewEvents \cap DOMAIN lm.events)
    IN  IF k < MaxNewEvents THEN {NewNames[k + 1]} ELSE {}

\* The client of the ordered events: registrations anchored at an ordered
\* event, at a registered event that is not ordered ('Init') or at a new
\* name, and subscriptions to what update() may run.
OrderNext ==
    \/ \E n \in NextNames : RegisterEvent(n)
    \/ \E n \in NextNames, x \in {"Update", "Init"} \cup NewEvents :
          RegisterEventBefore(n, x)
    \/ \E n \in NextNames, x \in {"Update", "Init"} \cup NewEvents :
          RegisterEventAfter(n, x)
    \/ \E n \in {"Update"} \cup NewEvents : SubscribeToEvent(n)
    \/ Initialize
    \/ Update

OrderSpec == Init /\ [][OrderNext]_vars

\* The client of the systems: it creates and destroys systems of the types of
\* the model, sets the public isRunning field and subscribes to the events
\* that the destruction of a system runs.
ResultStep(name, arg, results) ==
    \E r \in results : LifeStep(name, arg, "", r)

CreateSystem(s) == LifeStep("createSystem", s, "", createSystem(lm, s))
DestroySystem(s) == LifeStep("destroySystem", s, "", destroySystem(lm, s))
TryDestroySystem(s) == ResultStep("tryDestroySystem", s, tryDestroySystem(lm, s))
SetRunning(b) ==
    /\ lm.isRunning # b
    /\ LifeStep("isRunning", b, "", Result([lm EXCEPT !.isRunning = b], "", TRUE, <<>>))

SysNext ==
    \/ \E s \in Types : CreateSystem(s)
    \/ \E s \in Types : DestroySystem(s)
    \/ \E s \in Types : TryDestroySystem(s)
    \/ \E b \in BOOLEAN : SetRunning(b)
    \/ \E n \in {"PreDeinit", "Deinit", "PostDeinit"} : SubscribeToEvent(n)

SysSpec == Init /\ [][SysNext]_vars


\* ------------------------------------------------------------------ subscription client
\* UnsubSpec subscribes the client's callbacks to 'Init' and 'Update', any
\* callback any number of times, and unsubscribes any of them from either
\* event.
Callbacks == Subscribers \cup {ThrowSubscriber}

SubscribeCallback(name, f) ==
    /\ subscriptions(lm) < MaxSubscriptions
    /\ LifeStep("subscribeToEvent", name, f, subscribeToEvent(lm, name, f))

UnsubscribeFromEvent(name, f) ==
    LifeStep("unsubscribeFromEvent", name, f, unsubscribeFromEvent(lm, name, f))

UnsubNext ==
    \/ \E n \in {"Init", "Update"}, f \in Callbacks : SubscribeCallback(n, f)
    \/ \E n \in {"Init", "Update"}, f \in Callbacks : UnsubscribeFromEvent(n, f)

UnsubSpec == Init /\ [][UnsubNext]_vars


\* ------------------------------------------------------------------ systems and entities
\* EntSpec drives one Manager through createSystem, destroySystem,
\* tryDestroySystem, createEntity and add.  The client adds a component
\* to an entity that has no entry of the type.
EntBounded(data) ==
    /\ data.entities.occupancy <= MaxEntities
    /\ \A s \in DOMAIN data.systems :
          data.systems[s].components.occupancy <= MaxComponents

\* A call on the entities of lm: o is its outcome.
EntStep(name, arg, other, o) ==
    /\ EntBounded(o.m)
    /\ LifeStep(name, arg, other,
                [Result([lm EXCEPT !.data = o.m], o.error, TRUE, <<>>)
                    EXCEPT !.aborted = o.aborted])

EntCreateEntity == EntStep("createEntity", 0, 0, createEntity(lm.data))

EntAdd(entity, type) ==
    /\ entity \in 1..lm.data.entities.occupancy
    /\ findComponent(lm.data.entities.items[entity], type) = 0
    /\ EntStep("add", entity, type, add(lm.data, entity, type))

EntNext ==
    \/ \E s \in Types : CreateSystem(s)
    \/ \E s \in Types : DestroySystem(s)
    \/ \E s \in Types : TryDestroySystem(s)
    \/ EntCreateEntity
    \/ \E e \in EntityHandles, t \in Types : EntAdd(e, t)

EntSpec == Init /\ [][EntNext]_vars


\* ------------------------------------------------------------------ singleton client
\* A client that constructs and deletes Manager objects in the storage slots
\* 1..MaxManagers, with and without setSingleton, switches the singleton by
\* hand, initializes a Manager and makes a destroySystem call that fails.

SingletonCall(name, this, set, error, aborted) ==
    [name |-> name, arg |-> this, set |-> set, error |-> error,
     aborted |-> aborted, was |-> singletonInstance]

SingletonGoing == IF op.name = "new" THEN TRUE ELSE ~op.aborted

Constructed(m) == [alive |-> TRUE, m |-> m]

Construct(this, set) ==
    LET r == Singleton_ctor(singletonInstance, this, set)
    IN  /\ SingletonGoing
        /\ ~managers[this].alive
        /\ singletonInstance' = r.singletonInstance
        /\ managers' = IF r.error # "" THEN managers
                       ELSE [managers EXCEPT ![this] = Constructed(Manager_ctor)]
        /\ op' = SingletonCall("Manager", this, set, r.error, FALSE)
        /\ UNCHANGED outsideSingleton

Delete(this) ==
    /\ SingletonGoing
    /\ managers[this].alive
    /\ LET d == Manager_dtor(managers[this].m, singletonInstance, this)
       IN  /\ singletonInstance' = d.singletonInstance
           /\ managers' = IF d.aborted THEN managers
                          ELSE [managers EXCEPT ![this] = NoManager]
           /\ op' = SingletonCall("~Manager", this, FALSE, "", d.aborted)
    /\ UNCHANGED outsideSingleton

SetSingletonCurrent(this) ==
    /\ SingletonGoing
    /\ managers[this].alive
    /\ singletonInstance' = setSingletonCurrent(singletonInstance, this)
    /\ op' = SingletonCall("setSingletonCurrent", this, FALSE, "", FALSE)
    /\ UNCHANGED <<managers, outsideSingleton>>

UnsetSingletonCurrent(this) ==
    /\ SingletonGoing
    /\ managers[this].alive
    /\ singletonInstance' = unsetSingletonCurrent(singletonInstance, this)
    /\ op' = SingletonCall("unsetSingletonCurrent", this, FALSE, "", FALSE)
    /\ UNCHANGED <<managers, outsideSingleton>>

\* A call on one of the Managers that leaves singletonInstance alone.
CallOf(this, name, r) ==
    /\ SingletonGoing
    /\ managers[this].alive
    /\ managers' = [managers EXCEPT ![this].m = r.m]
    /\ op' = SingletonCall(name, this, FALSE, r.error, r.aborted)
    /\ UNCHANGED <<singletonInstance, outsideSingleton>>

SingletonNext ==
    \/ \E i \in 1..MaxManagers, set \in BOOLEAN : Construct(i, set)
    \/ \E i \in 1..MaxManagers : Delete(i)
    \/ \E i \in 1..MaxManagers : SetSingletonCurrent(i)
    \/ \E i \in 1..MaxManagers : UnsetSingletonCurrent(i)
    \/ \E i \in 1..MaxManagers :
          CallOf(i, "initialize", initialize(managers[i].m))
    \/ \E i \in 1..MaxManagers, s \in Types :
          CallOf(i, "destroySystem", destroySystem(managers[i].m, s))

SingletonSpec == Init /\ [][SingletonNext]_vars


\* ------------------------------------------------------------------ pool properties
InGarbage == SeqToSet(pool.garbageItems)
InFree == SeqToSet(pool.freeItems)
CallHandles(calls) == [k \in 1..Len(calls) |-> calls[k].h]

\* a record waiting in the garbage list is readable through get() and holds
\* what was last written to it
C1_AwaitingDispose ==
    \A h \in InGarbage :
        /\ ~get(pool, h).aborted
        /\ pool.items[get(pool, h).index] = written[h]

\* a destroy() step runs no finalizer and changes no slot
C1_DestroyDefers ==
    op'.name = "destroy" =>
        /\ pool'.items = pool.items
        /\ finCalls' = finCalls
        /\ op'.h # 0 => op'.h \in SeqToSet(pool'.garbageItems)

\* a finalizer runs, and a record's slot is reset, in dispose() or clear() only
C1_OnlyDisposeFinalizes ==
    \/ op'.name \in {"dispose", "clear"}
    \/ \A h \in alive : /\ finCalls'[h] = finCalls[h]
                        /\ pool'.items[h] = T0 => pool.items[h] = T0

\* a dispose() pass calls each waiting record's finalizer once, and resets
\* the slot in the pass in which the finalizer returns true
C1_DisposePass ==
    op'.name = "dispose" =>
        /\ \A h \in InGarbage : Occurrences(CallHandles(op'.calls), h) = 1
        /\ \A k \in 1..Len(op'.calls) :
              LET c == op'.calls[k]
              IN /\ c.h \in InGarbage
                 /\ pool'.items[c.h] = IF c.ok THEN T0 ELSE pool.items[c.h]
                 /\ finCalls'[c.h] = IF c.ok THEN 0 ELSE finCalls[c.h] + 1

\* C1 (as amended): destruction is two-phase.  After destroy(h) the record's
\* finalizer has not run and its data is unchanged and readable through
\* get(); the finalizer runs only in later dispose() passes (or in clear()),
\* once per pass until it returns true, and the slot is reset in the pass in
\* which it returns true.
C1_TwoPhase ==
    /\ [] C1_AwaitingDispose
    /\ [][C1_DestroyDefers /\ C1_OnlyDisposeFinalizes /\ C1_DisposePass]_vars

\* C1 witness: a dispose() pass has just freed a record whose finalizer had
\* answered "not yet" in an earlier pass.
C1_Witness ==
    /\ op.name = "dispose"
    /\ \E h \in DOMAIN op.runs : op.runs[h] = 2 /\ pool.items[h] = T0

\* C1 as stated: a destroyed record stays readable and unchanged until
\* dispose(), and its finalizer has run exactly once when dispose() frees it.
C1_FinalizerRunsOnce ==
    /\ C1_AwaitingDispose
    /\ op.name = "dispose" => \A h \in DOMAIN op.runs : op.runs[h] = 1

\* C2: with a non-empty free list, create(args) returns the handle on top of
\* the free stack, stores T(args) in that slot (which dispose() had reset to
\* T()), and leaves occupancy, capacity and version unchanged.
C2_CreateReuses ==
    [][(op'.name = "create" /\ pool.freeItems # <<>>) =>
          /\ op'.id = pool.freeItems[Len(pool.freeItems)]
          /\ pool'.freeItems = SubSeq(pool.freeItems, 1, Len(pool.freeItems) - 1)
          /\ pool.items[op'.id] = T0
          /\ ~get(pool', op'.id).aborted
          /\ pool'.items[get(pool', op'.id).index] = T(op'.arg)
          /\ \A h \in Handles \ {op'.id} :
                h <= pool.capacity => pool'.items[h] = pool.items[h]
          /\ pool'.occupancy = pool.occupancy
          /\ pool'.capacity = pool.capacity
          /\ pool'.version = pool.version]_vars

\* C2 witness: a create() has just reused the top of a free stack that held
\* two handles.
C2_Witness ==
    /\ op.name = "create" /\ op.reused
    /\ pool.items[op.id] = T(op.arg)
    /\ Len(pool.freeItems) = 1

\* C3 (as amended): on a fresh pool three consecutive create() calls return
\* 1, 2, 3 and leave capacity 4 (1, then 2, then 4) and occupancy 3; the
\* version is incremented three times, once per create that appends a slot.
C3_ThreeCreates ==
    fresh =>
        /\ op.name = "create" => op.id = pool.occupancy
        /\ pool.occupancy = 0 => pool.capacity = 1 /\ pool.version = 0
        /\ pool.occupancy = 1 => pool.capacity = 1 /\ pool.version = 1
        /\ pool.occupancy = 2 => pool.capacity = 2 /\ pool.version = 2
        /\ pool.occupancy = 3 => pool.capacity = 4 /\ pool.version = 3

\* C3 witness: the third create() on a fresh pool has returned.
C3_Witness == fresh /\ pool.occupancy = 3 /\ op.name = "create" /\ op.id = 3

\* C3 as stated: after three creates on a fresh pool the handles were 1, 2, 3,
\* capacity is 4, occupancy 3, and the version was incremented twice.
C3_VersionTwice ==
    (fresh /\ pool.occupancy = 3) =>
        /\ op.id = 3
        /\ pool.capacity = 4
        /\ pool.version = 2

\* the version strictly increases on every create() that appends a slot and
\* on every destroy() of a non-null handle
C4_VersionBumps ==
    ((op'.name = "create" /\ ~op'.reused) \/ (op'.name = "destroy" /\ op'.h # 0))
        => pool'.version > pool.version

\* a kept view throws after an appending create or a destroy (no clear() in
\* between), and does not throw when none of the three came in between
C4_Staleness ==
    (view # NoView /\ ~view.cleared) =>
        (viewThrows(view, pool) <=> view.appendOrDestroy)

C5_StaleHandleRejected ==
    \A h \in InFree : get(pool, h).aborted

C8_Retry ==
    [][op'.name = "dispose" =>
          LET calls == op'.calls
              failed == {calls[k].h : k \in {j \in 1..Len(calls) : ~calls[j].ok}}
              freed == Finalized(calls)
          IN /\ Len(calls) = Len(pool.garbageItems)
             /\ \A h \in InGarbage : Occurrences(CallHandles(calls), h) = 1
             /\ SeqToSet(pool'.garbageItems) = failed
             /\ Len(pool'.garbageItems) = Cardinality(failed)
             /\ \A h \in failed :
                   /\ pool'.items[h] = pool.items[h]
                   /\ h \notin SeqToSet(pool'.freeItems)
             /\ \A h \in freed :
                   /\ pool'.items[h] = T0
                   /\ Occurrences(pool'.freeItems, h) = 1
             /\ Len(pool'.freeItems) = Len(pool.freeItems) + Cardinality(freed)
             /\ SubSeq(pool'.freeItems, 1, Len(pool.freeItems)) = pool.freeItems]_vars

\* C8 witness: a pass that freed one entry on its retry while another entry's
\* finalizer returned false and stayed.
C8_Witness ==
    /\ op.name = "dispose"
    /\ \E h \in DOMAIN op.runs : op.runs[h] = 2
    /\ \E k \in 1..Len(op.calls) : ~op.calls[k].ok /\ op.calls[k].h \in InGarbage

\* ------------------------------------------------------------------ Manager properties
\* the entity's directory, read entry by entry
Directory(m, e) == m.entities.items[e].components
InDirectory(m, e, t) == \E i \in 1..Len(Directory(m, e)) : Directory(m, e)[i].type = t
EntryOf(m, e, t) ==
    Directory(m, e)[CHOOSE i \in 1..Len(Directory(m, e)) : Directory(m, e)[i].type = t]

\* entities created and not yet recycled by disposeEntities
LiveEntities ==
    {e \in 1..manager.entities.occupancy : e \notin SeqToSet(manager.entities.freeItems)}

ComponentGarbage(m, t) == SeqToSet(m.systems[t].components.garbageItems)
ComponentFree(m, t) == SeqToSet(m.systems[t].components.freeItems)

Removed == op.name = "remove" /\ op.error = "" /\ ~op.aborted

\* a successful remove only inserts the pair into the garbage set
C9_RemoveStep ==
    (op'.name = "remove" /\ op'.error = "" /\ ~op'.aborted) =>
        /\ <<op'.type, op'.entity>> \notin manager.garbageComponents
        /\ manager'.garbageComponents =
               manager.garbageComponents \cup {<<op'.type, op'.entity>>}
        /\ manager'.entities = manager.entities
        /\ manager'.systems = manager.systems
        /\ InDirectory(manager', op'.entity, op'.type)
        /\ op'.id = EntryOf(manager', op'.entity, op'.type).instance
        /\ op'.id \notin ComponentGarbage(manager', op'.type)

\* disposeGarbageComponents empties the garbage set; for each pair it held,
\* the directory entry goes and the component's handle enters its pool's
\* garbage list
C9_ReclaimStep ==
    (op'.name = "disposeGarbageComponents" /\ ~op'.aborted) =>
        /\ manager'.garbageComponents = {}
        /\ \A pair \in manager.garbageComponents :
              /\ InDirectory(manager, pair[2], pair[1])
              /\ ~InDirectory(manager', pair[2], pair[1])
              /\ EntryOf(manager, pair[2], pair[1]).instance
                     \notin ComponentGarbage(manager, pair[1])
              /\ EntryOf(manager, pair[2], pair[1]).instance
                     \in ComponentGarbage(manager', pair[1])

\* C9 (as amended): Manager::remove(entity, type) marks the record in the
\* global garbage set only: it inserts (type, entity) there and leaves the
\* entity's directory entry and the owning pool's garbage list as they were;
\* the directory entry is removed, and the component's handle appended to the
\* owning pool's garbage list, by the next disposeGarbageComponents.
C9_RemoveMarksOnly == [][C9_RemoveStep /\ C9_ReclaimStep]_vars

\* C9 witness: remove has just returned for an entity with two components;
\* the pair is in the garbage set, the directory entry is still there and
\* the component is not in its pool's garbage list.
C9_Witness ==
    /\ Removed
    /\ <<op.type, op.entity>> \in manager.garbageComponents
    /\ Len(Directory(manager, op.entity)) = 2
    /\ InDirectory(manager, op.entity, op.type)
    /\ op.id \notin ComponentGarbage(manager, op.type)

\* C9 as stated: when remove returns, the component's handle is in the owning
\* pool's garbage list, (type, entity) is in the garbage set and the entity's
\* directory has no entry of that type.
C9_RemoveDetaches ==
    Removed =>
        /\ op.id \in ComponentGarbage(manager, op.type)
        /\ <<op.type, op.entity>> \in manager.garbageComponents
        /\ ~InDirectory(manager, op.entity, op.type)

\* the component the directory names for (e, t) is in storage: its slot is
\* in use, not awaiting dispose, belongs to e, and get reaches it
StoragePresent(m, e, t) ==
    LET instance == EntryOf(m, e, t).instance
        p == m.systems[EntryOf(m, e, t).system].components
    IN /\ 1 <= instance /\ instance <= p.occupancy
       /\ instance \notin SeqToSet(p.freeItems)
       /\ instance \notin SeqToSet(p.garbageItems)
       /\ p.items[instance].entity = e
       /\ Manager_get(m, e, t).error = ""
       /\ Manager_get(m, e, t).view.index = instance

\* C10: while (type, entity) is in the garbage set, has is false, tryGet
\* returns a null view and tryGetID a null ID, although the directory entry
\* and the component's storage are still present; when the pair is not in
\* the garbage set, the three agree with directory membership.
C10_Existence ==
    \A e \in LiveEntities, t \in Types :
        IF <<t, e>> \in manager.garbageComponents
        THEN /\ ~has(manager, e, t)
             /\ tryGet(manager, e, t) = NullView
             /\ tryGetID(manager, e, t) = 0
             /\ InDirectory(manager, e, t)
             /\ StoragePresent(manager, e, t)
        ELSE /\ has(manager, e, t) <=> InDirectory(manager, e, t)
             /\ (tryGet(manager, e, t) # NullView) <=> InDirectory(manager, e, t)
             /\ (tryGetID(manager, e, t) # 0) <=> InDirectory(manager, e, t)
             /\ InDirectory(manager, e, t) =>
                   /\ tryGetID(manager, e, t) = EntryOf(manager, e, t).instance
                   /\ tryGet(manager, e, t).index = EntryOf(manager, e, t).instance

\* C10 witness: an entity with two components, one removed and not yet
\* reclaimed (reported absent), the other reported present.
C10_Witness ==
    \E e \in owned, t, u \in Types :
        /\ <<t, e>> \in manager.garbageComponents
        /\ InDirectory(manager, e, t) /\ ~has(manager, e, t)
        /\ <<u, e>> \notin manager.garbageComponents
        /\ has(manager, e, u) /\ tryGetID(manager, e, u) # 0

\* C11: remove(entity, type) throws "Component is not added." when the
\* directory has no entry of the type, and "Already removed component." when
\* the entry is there and (type, entity) is already in the garbage set;
\* otherwise it returns; a remove that throws leaves the directory, the
\* garbage set and the component pools exactly as they were.
C11_RemoveFails ==
    [][op'.name = "remove" =>
          LET inDir == InDirectory(manager, op'.entity, op'.type)
              inSet == <<op'.type, op'.entity>> \in manager.garbageComponents
          IN /\ ~op'.aborted
             /\ ~inDir => op'.error = "Component is not added."
             /\ (inDir /\ inSet) => op'.error = "Already removed component."
             /\ (inDir /\ ~inSet) => op'.error = ""
             /\ op'.error # "" =>
                   /\ manager'.entities = manager.entities
                   /\ manager'.garbageComponents = manager.garbageComponents
                   /\ manager'.systems = manager.systems]_vars

\* C11 witness: a second remove of the same pair before any reclaim has
\* just thrown.
C11_Witness ==
    /\ op.name = "remove"
    /\ op.error = "Already removed component."
    /\ <<op.type, op.entity>> \in manager.garbageComponents
    /\ InDirectory(manager, op.entity, op.type)

\* a reclaim pass takes every pair out of the garbage set and its entry out
\* of the directory
C12_ReclaimStep ==
    (op'.name = "disposeGarbageComponents" /\ ~op'.aborted) =>
        \A pair \in manager.garbageComponents :
            /\ pair \notin manager'.garbageComponents
            /\ ~InDirectory(manager', pair[2], pair[1])

\* wherever an entity the client holds has no entry of a type, add succeeds
\* and makes the component visible, a following remove succeeds, and the
\* reclaim after it leaves the pair as it was before the add
C12_CanRepeat ==
    \A e \in owned, t \in Types :
        ~InDirectory(manager, e, t) =>
            LET a == add(manager, e, t)
                r == remove(a.m, e, t)
                d == disposeGarbageComponents(r.m)
            IN /\ a.error = "" /\ ~a.aborted
               /\ InDirectory(a.m, e, t) /\ has(a.m, e, t)
               /\ r.error = "" /\ ~r.aborted
               /\ <<t, e>> \in r.m.garbageComponents
               /\ ~d.aborted
               /\ <<t, e>> \notin d.m.garbageComponents
               /\ ~InDirectory(d.m, e, t)

\* C12: after remove(entity, type) and a reclaim pass the pair is no longer
\* in the garbage set and the directory holds no entry of the type, so
\* add(entity, type) succeeds again and a following remove succeeds; the
\* cycle leaves the pair where it started, so it can be repeated.
C12_Cycle == [] C12_CanRepeat /\ [][C12_ReclaimStep]_vars

\* C12 witness: the second remove of a pair has just returned: the only
\* entity ever created was never destroyed, and the type's pool has already
\* seen a destroy, which the reclaim of the first cycle made.
C12_Witness ==
    /\ Removed
    /\ manager.entities.version = 1
    /\ manager.systems[op.type].components.version
           > manager.systems[op.type].components.occupancy
    /\ <<op.type, op.entity>> \in manager.garbageComponents

\* C13: between operations, no directory entry of a live entity holds a
\* component handle that is in its owning pool's garbage list or free list,
\* for a client that reclaims the garbage set before it disposes entities.
C13_NoRecycledHandle ==
    \A e \in LiveEntities :
        \A i \in 1..Len(Directory(manager, e)) :
            LET data == Directory(manager, e)[i]
            IN /\ data.instance \notin ComponentGarbage(manager, data.system)
               /\ data.instance \notin ComponentFree(manager, data.system)

\* C13 witness: a reclaim has put a component on its pool's garbage list
\* while a live entity has an entry for another component of the same pool.
C13_Witness ==
    \E e \in LiveEntities, t \in Types :
        /\ InDirectory(manager, e, t)
        /\ ComponentGarbage(manager, t) # {}
        /\ op.name = "disposeGarbageComponents"

\* C14: an add(entity, type) that throws leaves the entity's directory, the
\* garbage set, and every component pool's occupancy and count as they were.
C14_FailedAddUntouched ==
    [][(op'.name = "add" /\ op'.error # "") =>
          /\ manager'.entities = manager.entities
          /\ manager'.garbageComponents = manager.garbageComponents
          /\ \A s \in DOMAIN manager.systems :
                /\ manager'.systems[s].components.occupancy
                       = manager.systems[s].components.occupancy
                /\ getCount(manager'.systems[s].components)
                       = getCount(manager.systems[s].components)]_vars

\* ------------------------------------------------------------------ Ref client
\* One thread constructs, copies, moves, assigns and drops Ref objects held
\* in MaxRefs storage slots.
RefCall(name, dst, src) == [name |-> name, dst |-> dst, src |-> src]

\* new (&slot[s]) Ref<T>(ID<T>(item))
RefFromID(s, item, a) ==
    /\ ~refUB
    /\ ~refs[s].live
    /\ ~counters[a].live
    /\ LET r == Ref_ID(counters, a, item)
       IN /\ counters' = r.heap
          /\ refs' = [refs EXCEPT ![s] = Object(r.this)]
    /\ op' = RefCall("Ref", s, 0)
    /\ UNCHANGED <<pc, refUB, outsideRef>>

\* new (&slot[dst]) Ref<T>(slot[src])
RefCopy(dst, src) ==
    /\ ~refUB
    /\ ~refs[dst].live
    /\ refs[src].live
    /\ LET r == Ref_copy(counters, refs[src])
       IN /\ counters' = r.heap
          /\ refs' = [refs EXCEPT ![dst] = Object(r.this)]
          /\ refUB' = r.ub
    /\ op' = RefCall("copy", dst, src)
    /\ UNCHANGED <<pc, outsideRef>>

\* new (&slot[dst]) Ref<T>(std::move(slot[src]))
RefMove(dst, src) ==
    /\ ~refUB
    /\ ~refs[dst].live
    /\ refs[src].live
    /\ LET r == Ref_move(refs[src])
       IN refs' = [refs EXCEPT ![dst] = Object(r.this), ![src] = Object(r.ref)]
    /\ op' = RefCall("move", dst, src)
    /\ UNCHANGED <<counters, pc, refUB, outsideRef>>

\* slot[dst] = slot[src]
RefCopyAssign(dst, src) ==
    /\ ~refUB
    /\ refs[dst].live
    /\ refs[src].live
    /\ LET r == Ref_copyAssign(counters, refs[dst], refs[src], dst = src)
       IN /\ counters' = r.heap
          /\ refs' = [refs EXCEPT ![dst] = Object(r.this)]
          /\ refUB' = r.ub
    /\ op' = RefCall("copyAssign", dst, src)
    /\ UNCHANGED <<pc, outsideRef>>

\* slot[dst] = std::move(slot[src])
RefMoveAssign(dst, src) ==
    /\ ~refUB
    /\ refs[dst].live
    /\ refs[src].live
    /\ LET r == Ref_moveAssign(counters, refs[dst], refs[src], dst = src)
       IN /\ counters' = r.heap
          /\ refs' = IF dst = src THEN refs
                     ELSE [refs EXCEPT ![dst] = Object(r.this), ![src] = Object(r.ref)]
          /\ refUB' = r.ub
    /\ op' = RefCall("moveAssign", dst, src)
    /\ UNCHANGED <<pc, outsideRef>>

\* slot[s].~Ref()
RefDrop(s) ==
    /\ ~refUB
    /\ refs[s].live
    /\ LET r == Ref_dtor(counters, refs[s])
       IN /\ counters' = r.heap
          /\ refUB' = r.ub
    /\ refs' = [refs EXCEPT ![s] = NoObject]
    /\ op' = RefCall("drop", s, 0)
    /\ UNCHANGED <<pc, outsideRef>>

RefNext ==
    \/ \E s \in RefSlots, item \in RefItems, a \in Addresses : RefFromID(s, item, a)
    \/ \E dst \in RefSlots, src \in RefSlots : RefCopy(dst, src)
    \/ \E dst \in RefSlots, src \in RefSlots : RefMove(dst, src)
    \/ \E dst \in RefSlots, src \in RefSlots : RefCopyAssign(dst, src)
    \/ \E dst \in RefSlots, src \in RefSlots : RefMoveAssign(dst, src)
    \/ \E s \in RefSlots : RefDrop(s)

RefSpec == Init /\ [][RefNext]_vars


\* ------------------------------------------------------------------ Ref on several threads
\* One lineage: the main thread built a Ref of item 1 and handed one copy to
\* each thread before starting them.  A thread copies, moves, assigns and drops only
\* the Ref objects in its own storage; the counter is the only shared memory.
\* A step is one access to the counter (fetch_add, fetch_sub or delete) with
\* the thread-local reads and writes next to it; accesses are interleaved in
\* one total order.  op, the last call of the single-threaded clients, is not
\* used here.
ThreadSlots == Threads \X (1..RefsPerThread)
Lineage == 1

ThreadsInit ==
    /\ PoolInit
    /\ ManagerInit
    /\ DirInit
    /\ ReentInit
    /\ LifeInit
    /\ SingletonInit
    /\ PlainInit
    /\ refs = [x \in ThreadSlots |->
                  IF x[2] = 1 THEN Object([counter |-> Lineage, item |-> 1])
                  ELSE NoObject]
    /\ counters = [a \in Addresses |->
                      IF a = Lineage THEN [live |-> TRUE, value |-> NumThreads]
                      ELSE Unallocated]
    /\ pc = [t \in Threads |-> Idle]
    /\ refUB = FALSE
    /\ op = [name |-> "new"]

\* thread t: new (&mine[dst]) Ref<T>(mine[src])
ThreadCopy(t, dst, src) ==
    /\ ~refUB
    /\ pc[t] = Idle
    /\ ~refs[<<t, dst>>].live
    /\ refs[<<t, src>>].live
    /\ LET r == Ref_copy(counters, refs[<<t, src>>])
       IN /\ counters' = r.heap
          /\ refs' = [refs EXCEPT ![<<t, dst>>] = Object(r.this)]
          /\ refUB' = r.ub
    /\ UNCHANGED <<pc, op, outsideRef>>

\* thread t: new (&mine[dst]) Ref<T>(std::move(mine[src])): no counter access
ThreadMove(t, dst, src) ==
    /\ ~refUB
    /\ pc[t] = Idle
    /\ ~refs[<<t, dst>>].live
    /\ refs[<<t, src>>].live
    /\ LET r == Ref_move(refs[<<t, src>>])
       IN refs' = [refs EXCEPT ![<<t, dst>>] = Object(r.this),
                               ![<<t, src>>] = Object(r.ref)]
    /\ UNCHANGED <<counters, pc, refUB, op, outsideRef>>


\* what follows the fetch_sub of a release: delete when it returned 1
afterSub(f, a, next) ==
    IF ~f.ub /\ f.old = 1 THEN [at |-> "delete", counter |-> a, next |-> next]
    ELSE next

\* thread t: mine[s].~Ref(), up to and including the fetch_sub
ThreadDrop(t, s) ==
    /\ ~refUB
    /\ pc[t] = Idle
    /\ refs[<<t, s>>].live
    /\ LET this == refs[<<t, s>>]
           f == IF this.item # 0 THEN fetch_sub(counters, this.counter)
                ELSE [heap |-> counters, old |-> 0, ub |-> FALSE]
       IN /\ counters' = f.heap
          /\ refUB' = f.ub
          /\ pc' = [pc EXCEPT ![t] = afterSub(f, this.counter, Idle)]
    /\ refs' = [refs EXCEPT ![<<t, s>>] = NoObject]
    /\ UNCHANGED <<op, outsideRef>>

\* thread t: delete counter, after its fetch_sub returned 1
ThreadDelete(t) ==
    /\ ~refUB
    /\ pc[t].at = "delete"
    /\ LET r == deleteCounter(counters, pc[t].counter)
       IN /\ counters' = r.heap
          /\ refUB' = r.ub
    /\ pc' = [pc EXCEPT ![t] = pc[t].next]
    /\ UNCHANGED <<refs, op, outsideRef>>

\* thread t: mine[dst] = mine[src], up to and including the fetch_sub
ThreadAssign(t, dst, src) ==
    /\ ~refUB
    /\ pc[t] = Idle
    /\ dst # src
    /\ refs[<<t, dst>>].live
    /\ refs[<<t, src>>].live
    /\ LET this == refs[<<t, dst>>]
           f == IF this.item # 0 THEN fetch_sub(counters, this.counter)
                ELSE [heap |-> counters, old |-> 0, ub |-> FALSE]
       IN /\ counters' = f.heap
          /\ refUB' = f.ub
          /\ pc' = [pc EXCEPT ![t] =
                       afterSub(f, this.counter,
                                [at |-> "add", dst |-> dst, src |-> src])]
    /\ UNCHANGED <<refs, op, outsideRef>>

\* thread t: the rest of the assignment: fetch_add and the two stores
ThreadAssignAdd(t) ==
    /\ ~refUB
    /\ pc[t].at = "add"
    /\ LET ref == refs[<<t, pc[t].src>>]
           f == IF ref.item # 0 THEN fetch_add(counters, ref.counter)
                ELSE [heap |-> counters, old |-> 0, ub |-> FALSE]
       IN /\ counters' = f.heap
          /\ refUB' = f.ub
          /\ refs' = [refs EXCEPT ![<<t, pc[t].dst>>] =
                         Object([counter |-> ref.counter, item |-> ref.item])]
    /\ pc' = [pc EXCEPT ![t] = Idle]
    /\ UNCHANGED <<op, outsideRef>>

ThreadsNext ==
    \/ \E t \in Threads, dst \in 1..RefsPerThread, src \in 1..RefsPerThread :
          ThreadCopy(t, dst, src)
    \/ \E t \in Threads, dst \in 1..RefsPerThread, src \in 1..RefsPerThread :
          ThreadMove(t, dst, src)
    \/ \E t \in Threads, s \in 1..RefsPerThread : ThreadDrop(t, s)
    \/ \E t \in Threads : ThreadDelete(t)
    \/ \E t \in Threads, dst \in 1..RefsPerThread, src \in 1..RefsPerThread :
          ThreadAssign(t, dst, src)
    \/ \E t \in Threads : ThreadAssignAdd(t)

ThreadsSpec == ThreadsInit /\ [][ThreadsNext]_vars


\* ------------------------------------------------------------------ directory client
\* One Entity, driven as the Manager drives it: addComponent only after
\* findComponent returned null (Manager::add, Manager::duplicate),
\* removeComponent only with the entry findComponent returned
\* (Manager::disposeGarbageComponents), reserve only to grow
\* (Manager::reserveComponents).  The system of an entry is named by its key.
DirCall(name, type) == [name |-> name, type |-> type]

DirAdd(k, instance) ==
    /\ findComponent(dir, k) = 0
    /\ dir' = addComponent(dir, k, k, instance)
    /\ present' = [present EXCEPT ![k] = instance]
    /\ op' = DirCall("addComponent", k)
    /\ UNCHANGED outsideDir

DirRemove(k) ==
    LET i == findComponent(dir, k)
    IN /\ i # 0
       /\ dir' = removeComponent(dir, i)
       /\ present' = [present EXCEPT ![k] = 0]
       /\ op' = DirCall("removeComponent", k)
       /\ UNCHANGED outsideDir

DirReserve(capacity) ==
    /\ ~(capacity <= dir.capacity)
    /\ dir' = reserve(dir, capacity)
    /\ op' = DirCall("reserve", capacity)
    /\ UNCHANGED <<present, outsideDir>>

DirNext ==
    \/ \E k \in Keys, instance \in 1..MaxInstance : DirAdd(k, instance)
    \/ \E k \in Keys : DirRemove(k)
    \/ \E capacity \in 1..MaxKey : DirReserve(capacity)

DirSpec == Init /\ [][DirNext]_vars

\* ------------------------------------------------------------------ directory properties
\* C18: after every sequence of addComponent, removeComponent and reserve on
\* one entity the entries are in strictly increasing order of type key (so no
\* key occurs twice), there are at most capacity of them, and findComponent of
\* a key returns that key's entry when the key was added and not removed
\* since, and null for every other key.
C18_Directory ==
    LET c == dir.components
    IN /\ \A i \in 1..Len(c), j \in 1..Len(c) : i < j => c[i].type < c[j].type
       /\ Len(c) <= dir.capacity
       /\ \A k \in 0..(MaxKey + 1) :
             LET i == findComponent(dir, k)
             IN IF k \in Keys /\ present[k] # 0
                THEN /\ i # 0
                     /\ c[i] = [type |-> k, system |-> k, instance |-> present[k]]
                ELSE i = 0

\* the smallest key was added last, to three entries in an array of four
C18_Witness ==
    /\ op = DirCall("addComponent", 1)
    /\ Len(dir.components) = 3
    /\ dir.capacity = 4
    /\ present[2] = 0


\* ------------------------------------------------------------------ reentrant client
\* A pool whose records call back into it: create() runs the constructor of
\* T, dispose() and clear() run the finalizer destroy() of records, and these
\* callbacks call create(), dispose() or clear() of the same pool and catch
\* the error.  A call that runs a callback is two steps, REnter (the test and
\* the setting of isChanging) and RLeave (the rest of the body); nested calls
\* come in between.  The fields a call changes before its callback runs are
\* written at RLeave: a nested call reads isChanging alone.
Willing(n) == [k \in 1..n |-> TRUE]

\* the call runs a constructor or a finalizer
callsBack(p, name, destroyItems) ==
    CASE name = "create" -> TRUE
      [] name = "dispose" -> p.garbageItems # <<>>
      [] name = "clear" -> getCount(p) # 0 /\ destroyItems

\* the call with its arguments: the item T(1), finalizers that return true
invoke(p, name, destroyItems) ==
    CASE name = "create" ->
            LET r == create(p, T(1), T0) IN [pool |-> r.pool, threw |-> r.threw]
      [] name = "dispose" ->
            LET r == dispose(p, Willing(Len(p.garbageItems)), T0)
            IN [pool |-> r.pool, threw |-> r.threw]
      [] name = "clear" ->
            LET r == clear(p, destroyItems, T0) IN [pool |-> r.pool, threw |-> r.threw]

PoolCalls == {"create", "dispose", "clear"}

\* the client may start the call: the pool of the model has room for it
RWithin(name) ==
    /\ (name = "create" /\ rpool.freeItems = <<>>) =>
          (rpool.occupancy < MaxOccupancy /\ rpool.version < MaxVersion)
    /\ name = "clear" => rpool.occupancy > 0

\* a call that runs no callback
RCall(name, destroyItems) ==
    /\ running = NoCall
    /\ RWithin(name)
    /\ ~callsBack(rpool, name, destroyItems)
    /\ LET r == invoke(rpool, name, destroyItems)
       IN /\ ~r.threw
          /\ rpool' = r.pool
    /\ op' = [name |-> name, nested |-> FALSE, threw |-> FALSE]
    /\ UNCHANGED <<running, outsideReent>>

\* a call that runs a callback, up to the callback
REnter(name, destroyItems) ==
    /\ running = NoCall
    /\ RWithin(name)
    /\ callsBack(rpool, name, destroyItems)
    /\ ~rpool.isChanging
    /\ rpool' = [rpool EXCEPT !.isChanging = TRUE]
    /\ running' = [name |-> name, destroyItems |-> destroyItems]
    /\ op' = [name |-> "enter", nested |-> FALSE, threw |-> FALSE]
    /\ UNCHANGED outsideReent

\* the callback calls the pool and catches what the call throws
RNested(name, destroyItems) ==
    /\ running # NoCall
    /\ LET r == invoke(rpool, name, destroyItems)
       IN /\ rpool' = r.pool
          /\ op' = [name |-> name, nested |-> TRUE, threw |-> r.threw]
    /\ UNCHANGED <<running, outsideReent>>

\* the callback has returned: the rest of the call
RLeave ==
    /\ running # NoCall
    /\ LET r == invoke([rpool EXCEPT !.isChanging = FALSE],
                       running.name, running.destroyItems)
       IN rpool' = r.pool
    /\ running' = NoCall
    /\ op' = [name |-> running.name, nested |-> FALSE, threw |-> FALSE]
    /\ UNCHANGED outsideReent

\* rpool.destroy(h) between calls, h a record created and not destroyed
RDestroy(h) ==
    LET r == destroy(rpool, h)
    IN /\ running = NoCall
       /\ h \in 1..rpool.occupancy
       /\ h \notin SeqToSet(rpool.freeItems) \cup SeqToSet(rpool.garbageItems)
       /\ rpool.version < MaxVersion
       /\ ~r.aborted
       /\ rpool' = r.pool
       /\ op' = [name |-> "destroy", nested |-> FALSE, threw |-> FALSE]
       /\ UNCHANGED <<running, outsideReent>>

ReentNext ==
    \/ \E name \in PoolCalls, b \in BOOLEAN : RCall(name, b)
    \/ \E name \in PoolCalls, b \in BOOLEAN : REnter(name, b)
    \/ \E name \in PoolCalls, b \in BOOLEAN : RNested(name, b)
    \/ RLeave
    \/ \E h \in Handles : RDestroy(h)

ReentSpec == Init /\ [][ReentNext]_vars

\* ------------------------------------------------------------------ reentrancy properties
C19_InProgress ==
    /\ running # NoCall <=> rpool.isChanging
    /\ running # NoCall =>
          \A name \in PoolCalls, b \in BOOLEAN :
             LET r == invoke(rpool, name, b)
             IN r.threw /\ r.pool = rpool

C19_Step ==
    op'.nested => /\ op'.threw
                  /\ rpool' = rpool
                  /\ running' = running

\* C19: while a create(), dispose() or clear() of a pool is in progress, every
\* create(), dispose() and clear() of that pool throws and leaves the pool,
\* and the call in progress, as they were.
C19_Rejected == []C19_InProgress /\ [][C19_Step]_vars

\* a dispose() called from a finalizer that dispose() is running was rejected
C19_Witness ==
    /\ op = [name |-> "dispose", nested |-> TRUE, threw |-> TRUE]
    /\ running.name = "dispose"
    /\ rpool.garbageItems # <<>>


\* ------------------------------------------------------------------ Ref properties
\* the live non-null Ref objects that share the counter of slot s
Sharing(rs, s) ==
    {x \in DOMAIN rs : rs[x].live /\ rs[x].item # 0 /\ rs[x].counter = rs[s].counter}

C15_Count ==
    /\ ~refUB
    /\ \A s \in RefSlots :
          refs[s].live =>
             IF refs[s].item = 0
             THEN getRefCount(counters, refs[s]) = 0 /\ ~isLastRef(counters, refs[s])
             ELSE /\ allocated(counters, refs[s].counter)
                  /\ getRefCount(counters, refs[s]) = Cardinality(Sharing(refs, s))
                  /\ isLastRef(counters, refs[s]) <=> Cardinality(Sharing(refs, s)) = 1

C15_Step ==
    LET before(s) == getRefCount(counters, refs[s])
        after(s) == getRefCount(counters', refs'[s])
        d == op'.dst
        s == op'.src
    IN /\ (op'.name = "Ref" /\ refs'[d].item # 0) => after(d) = 1
       /\ (op'.name = "copy" /\ refs[s].item # 0) =>
             after(d) = before(s) + 1 /\ after(s) = before(s) + 1
       /\ (op'.name = "move" /\ refs[s].item # 0) =>
             /\ after(d) = before(s)
             /\ refs'[s] = Object(NullRef)
             /\ after(s) = 0
       /\ (op'.name = "moveAssign" /\ d # s /\ refs[s].item # 0) =>
             /\ after(d) = IF refs[d].item # 0 /\ refs[d].counter = refs[s].counter
                           THEN before(s) - 1 ELSE before(s)
             /\ refs'[s] = Object(NullRef)
       /\ (op'.name = "drop" /\ refs[d].item # 0) =>
             \A x \in Sharing(refs, d) \ {d} : after(x) = before(x) - 1

\* C15: in every single-threaded sequence of Ref operations the count a
\* non-null Ref reports is the number of live Refs sharing its counter (so a
\* Ref built from a non-null ID reports 1, each copy adds one and each drop
\* takes one away), a move hands the count over unchanged and leaves the
\* moved-from Ref null, and a null Ref reports 0 and is never the last one.
C15_RefCount == []C15_Count /\ [][C15_Step]_vars

\* a Ref of count 2 was just moved: the target reports 2, the source is null
C15_Witness ==
    /\ op.name = "move"
    /\ refs[op.dst].live /\ refs[op.dst].item # 0
    /\ getRefCount(counters, refs[op.dst]) = 2
    /\ refs[op.src] = Object(NullRef)


LiveRefs == {x \in DOMAIN refs : refs[x].live /\ refs[x].item # 0}
Deleting == {t \in Threads : pc[t].at = "delete"}
\* the assignment target whose reference thread t has given up and not yet
\* replaced: between the fetch_sub and the stores of operator=
Released ==
    {x \in DOMAIN refs :
        LET here == pc[x[1]]
            todo == IF here.at = "delete" THEN here.next ELSE here
        IN todo.at = "add" /\ todo.dst = x[2]}
Holding == LiveRefs \ Released

C16_Safe ==
    /\ ~refUB
    /\ Cardinality(Deleting) <= 1
    /\ counters[Lineage].live => counters[Lineage].value = Cardinality(Holding)
    /\ ~counters[Lineage].live => Holding = {} /\ Deleting = {}
    /\ (Holding = {} /\ Deleting = {}) => ~counters[Lineage].live

C16_Step ==
    /\ (counters[Lineage].live /\ ~counters'[Lineage].live) =>
          /\ \E t \in Deleting : pc'[t] = pc[t].next
          /\ counters[Lineage].value = 0
    /\ \A t \in Threads :
          (pc[t].at # "delete" /\ pc'[t].at = "delete") =>
             /\ pc[t] = Idle
             /\ counters[Lineage].value = 1
             /\ counters'[Lineage].value = 0
    /\ ~counters[Lineage].live => ~counters'[Lineage].live

\* C16: threads that copy, move, assign and drop their own Refs of one
\* lineage in any interleaving free the shared counter once and only once, in
\* the drop (by the destructor, or by an assignment over the last Ref) whose
\* fetch_sub took the count from 1 to 0, after every reference of the lineage
\* is given up; no thread reads, changes or frees the counter after that.
C16_FreedOnce == []C16_Safe /\ [][C16_Step]_vars

\* the last drop of the lineage has just freed the counter
C16_Witness ==
    /\ DOMAIN refs = ThreadSlots
    /\ ~counters[Lineage].live
    /\ Holding = {}


\* the slots holding a live non-null Ref
NonNull(rs) == {x \in DOMAIN rs : rs[x].live /\ rs[x].item # 0}

C17_Equal ==
    \A x \in NonNull(refs), y \in NonNull(refs) :
        (refs[x].item = refs[y].item /\ refs[x].counter # refs[y].counter) =>
           /\ Ref_eq(refs[x], refs[y])
           /\ ~Ref_ne(refs[x], refs[y])
           /\ ~Ref_lt(refs[x], refs[y])

C17_Step ==
    LET d == op'.dst
        s == op'.src
        touched == {refs[d].counter, refs'[d].counter}
                      \cup (IF s = 0 THEN {} ELSE {refs[s].counter})
    IN /\ (op'.name = "Ref" /\ refs'[d].item # 0) =>
             /\ \A x \in NonNull(refs) : refs[x].counter # refs'[d].counter
             /\ getRefCount(counters', refs'[d]) = 1
             /\ isLastRef(counters', refs'[d])
       /\ \A x \in NonNull(refs) :
             refs[x].counter \notin touched =>
                /\ refs'[x] = refs[x]
                /\ getRefCount(counters', refs'[x]) = getRefCount(counters, refs[x])

\* C17: a Ref built from an ID gets a counter no other Ref has, reports count
\* 1 and is the last one, whatever Refs of the same ID exist already; a call
\* on Refs of one counter never changes the count of a Ref with another
\* counter; and Refs of the same ID with different counters are equal, not
\* unequal, and neither is less than the other.
C17_Independent == []C17_Equal /\ [][C17_Step]_vars

\* two Refs built from the same ID, one of them just copied: counts 2 and 1
C17_Witness ==
    /\ op.name = "copy"
    /\ \E y \in NonNull(refs) :
          /\ refs[y].item = refs[op.src].item
          /\ refs[y].counter # refs[op.src].counter
          /\ getRefCount(counters, refs[op.src]) = 2
          /\ isLastRef(counters, refs[y])
          /\ Ref_eq(refs[op.src], refs[y])


\* ------------------------------------------------------------------ destroy frame
\* q is p with instance appended to the garbage list and the version bumped
OnlyMarked(p, q, instance) ==
    q = [p EXCEPT !.garbageItems = Append(@, instance), !.version = @ + 1]

C20_Pure ==
    \A h \in 0..pool.occupancy :
        LET r == destroy(pool, h)
        IN IF h = 0 THEN ~r.aborted /\ r.pool = pool
           ELSE IF h \in SeqToSet(pool.garbageItems) THEN r.aborted
           ELSE /\ ~r.aborted
                /\ OnlyMarked(pool, r.pool, h)
                /\ r.pool.occupancy = pool.occupancy
                /\ r.pool.capacity = pool.capacity
                /\ r.pool.freeItems = pool.freeItems
                /\ r.pool.items = pool.items

C20_Step ==
    op'.name = "destroy" =>
        IF op'.h = 0 THEN pool' = pool
        ELSE /\ pool'.garbageItems = Append(pool.garbageItems, op'.h)
             /\ pool'.version = pool.version + 1
             /\ pool'.occupancy = pool.occupancy
             /\ pool'.capacity = pool.capacity
             /\ pool'.freeItems = pool.freeItems
             /\ pool'.items = pool.items

\* C20: destroy of the null handle changes nothing in the pool; destroy of a
\* handle of a slot in use (not already awaiting dispose, which the debug
\* build aborts on) appends the handle to the garbage list, adds one to the
\* version and leaves occupancy, capacity, the free list and the content of
\* every slot as they were.
C20_DestroyFrame == []C20_Pure /\ [][C20_Step]_vars

\* a record was destroyed while another slot was on the free list
C20_Witness ==
    /\ op.name = "destroy"
    /\ op.h # 0
    /\ pool.garbageItems # <<>>
    /\ pool.garbageItems[Len(pool.garbageItems)] = op.h
    /\ pool.freeItems # <<>>
    /\ pool.items[op.h] # T0


\* ------------------------------------------------------------------ locking
LockMark == <<"lock", 0>>
UnlockMark == <<"unlock", 0>>
LockCalls == {"lock", "tryLock", "unlock"}
Marks(trace, mark) == {i \in 1..Len(trace) : trace[i] = mark}

\* C21 as stated: no Manager operation other than lock, tryLock and unlock
\* themselves acquires the Manager's lock; in particular update() and the
\* dispose passes do no locking.
C21_NoInternalLocking ==
    [][op'.name \notin LockCalls => Marks(op'.trace, LockMark) = {}]_vars

C21_Step ==
    /\ (op'.name \in {"update", "start"} /\ op'.error = "" /\ lm.locker)
          => ~op'.returns /\ lm' = IF op'.name = "start"
                                   THEN [lm EXCEPT !.isRunning = TRUE] ELSE lm
    /\ (op'.name = "update" /\ op'.error = "" /\ ~lm.locker)
          => /\ op'.returns
             /\ Marks(op'.trace, LockMark) = {1}
             /\ Marks(op'.trace, UnlockMark) = {Len(op'.trace)}
             /\ ~lm'.locker
    /\ (op'.name \in {"update", "start"} /\ op'.error # "")
          => op'.trace = <<>> /\ lm' = lm
    /\ op'.name \in {"initialize", "subscribeToEvent", "disposeGarbageComponents",
                     "disposeEntities", "disposeSystemComponents"}
          => /\ Marks(op'.trace, LockMark) = {}
             /\ Marks(op'.trace, UnlockMark) = {}
             /\ lm'.locker = lm.locker

\* C21, amended: update() acquires the Manager's lock itself, before the
\* first ordered event, and releases it after the last dispose pass, so that
\* an update() (or start()) of a Manager whose lock is held does not return;
\* initialize, subscribeToEvent and the dispose passes called on their own
\* neither acquire nor release the lock.
C21_UpdateLocks == [][C21_Step]_vars

\* An update() that returned, with the lock taken around a subscriber and the
\* three dispose passes.
C21_Witness ==
    /\ op.name = "update"
    /\ op.returns
    /\ op.error = ""
    /\ Len(op.trace) > 5
    /\ op.trace[1] = LockMark


\* ------------------------------------------------------------------ systems
NotRegistered == "Component is not registered by any system."

\* C22: tryDestroySystem(type) of a registered system removes it and returns
\* true; of a type with no system it returns false and changes nothing,
\* without an error.
C22_TryDestroySystem ==
    [][op'.name = "tryDestroySystem" /\ ~lm.isChanging
          => IF hasSystem(lm, op'.arg)
             THEN op'.ret /\ op'.error = "" /\ ~hasSystem(lm', op'.arg)
             ELSE /\ ~op'.ret
                  /\ op'.error = ""
                  /\ ~op'.aborted
                  /\ ~op'.ub
                  /\ lm' = lm]_vars

\* C25: destroySystem(type) of a registered system removes the system, its
\* component type and its component name, so that a later add of the
\* component type fails as not registered; with no system of the type it
\* fails with an error.
C25_DestroySystem ==
    [][op'.name = "destroySystem"
          => IF hasSystem(lm, op'.arg)
             THEN /\ op'.error = ""
                  /\ ~hasSystem(lm', op'.arg)
                  /\ op'.arg \notin DOMAIN lm'.data.componentTypes
                  /\ op'.arg \notin DOMAIN lm'.componentNames
                  /\ add(lm'.data, 1, op'.arg).error = NotRegistered
             ELSE op'.error # ""]_vars


\* ------------------------------------------------------------------ ordered events
\* The subscriber calls of a trace, without the lock and dispose marks.
SubscriberCalls(trace) == SelectSeq(trace, LAMBDA c : c[2] # 0)
PositionIn(s, x) == CHOOSE i \in 1..Len(s) : s[i] = x
Drop(s, x) == SelectSeq(s, LAMBDA y : y # x)

C23_Registered ==
    /\ (op'.name = "registerEventBefore" /\ op'.error = "")
          => /\ \E j \in 1..(Len(lm'.orderedEvents) - 1) :
                   /\ lm'.orderedEvents[j] = op'.arg
                   /\ lm'.orderedEvents[j + 1] = op'.other
             /\ Drop(lm'.orderedEvents, op'.arg) = lm.orderedEvents
             /\ Len(lm'.orderedEvents) = Len(lm.orderedEvents) + 1
    /\ (op'.name = "registerEventAfter" /\ op'.error = "")
          => /\ \E j \in 1..(Len(lm'.orderedEvents) - 1) :
                   /\ lm'.orderedEvents[j] = op'.other
                   /\ lm'.orderedEvents[j + 1] = op'.arg
             /\ Drop(lm'.orderedEvents, op'.arg) = lm.orderedEvents
             /\ Len(lm'.orderedEvents) = Len(lm.orderedEvents) + 1
    /\ op'.name \notin {"registerEventBefore", "registerEventAfter"}
          => lm'.orderedEvents = lm.orderedEvents

C23_Run ==
    (op'.name = "update" /\ op'.error = "")
       => LET calls == SubscriberCalls(op'.trace)
              ordered == lm.orderedEvents
          IN  /\ \A i \in 1..Len(calls) :
                    /\ calls[i][1] \in SeqToSet(ordered)
                    /\ lm.events[calls[i][1]].isOrdered
              /\ \A n \in SeqToSet(ordered) :
                    SelectSeq(calls, LAMBDA c : c[1] = n)
                       = [k \in 1..Len(lm.events[n].subscribers) |->
                             <<n, lm.events[n].subscribers[k]>>]
              /\ \A i, j \in 1..Len(calls) :
                    i < j => PositionIn(ordered, calls[i][1])
                                <= PositionIn(ordered, calls[j][1])

\* C23: the ordered-event sequence starts as <<'Update'>>; a successful
\* registerEventBefore(new, X) puts new immediately before X and a successful
\* registerEventAfter(new, X) immediately after X, the other events keeping
\* their order, and nothing else changes the sequence; update() calls, for the
\* events of the sequence in its order, each event's subscribers in the order
\* of their subscription, and calls no subscriber of an event outside the
\* sequence (one registered with registerEvent).
C23_OrderedEvents ==
    /\ Manager_ctor.orderedEvents = <<"Update">>
    /\ [][C23_Registered /\ C23_Run]_vars

\* An update() that ran a subscriber of a new ordered event and then one of
\* 'Update', or two subscribers of one event.
C23_Witness ==
    /\ op.name = "update"
    /\ op.error = ""
    /\ Len(SubscriberCalls(op.trace)) = 2
    /\ Len(lm.orderedEvents) > 1
    /\ SubscriberCalls(op.trace)[1][1] \in NewEvents
    /\ SubscriberCalls(op.trace)[2][1] = "Update"


\* ------------------------------------------------------------------ life cycle
\* The calls of one event's subscribers, in the order of their subscription.
CallsOf(m, name) ==
    [k \in 1..Len(m.events[name].subscribers) |->
        <<name, m.events[name].subscribers[k]>>]

C24_Step ==
    /\ (op'.name = "initialize" /\ ~lm.initialized)
          => /\ op'.error = ""
             /\ op'.trace = CallsOf(lm, "PreInit") \o CallsOf(lm, "Init")
                               \o CallsOf(lm, "PostInit")
             /\ lm'.initialized
    /\ (op'.name = "initialize" /\ lm.initialized)
          => /\ op'.error = "Manager is already initialized."
             /\ op'.trace = <<>>
             /\ lm' = lm
    /\ (op'.name \in {"update", "start"} /\ ~lm.initialized)
          => /\ op'.error = "Manager is not initialized."
             /\ op'.trace = <<>>
             /\ lm' = lm
    /\ (op'.name \in {"update", "start"} /\ lm.initialized) => op'.error = ""

\* C24: initialize() of a Manager that is not initialized calls the
\* subscribers of PreInit, then of Init, then of PostInit, and marks the
\* Manager initialized; initialize() of an initialized Manager fails with an
\* error, calls no subscriber and changes nothing; update() and start() of a
\* Manager that is not initialized fail with an error, run no event and no
\* dispose pass, and change nothing.
C24_LifeCycle == [][C24_Step]_vars

\* A second initialize() that failed, on a Manager whose first initialize()
\* had two subscribers to call.
C24_Witness ==
    /\ op.name = "initialize"
    /\ op.error # ""
    /\ lm.initialized
    /\ subscriptions(lm) = 2
    /\ lm.events["Init"].subscribers # <<>>
    /\ lm.events["PostInit"].subscribers # <<>>


\* ------------------------------------------------------------------ singleton
C26_Step ==
    /\ (op'.name = "Manager" /\ op'.set /\ singletonInstance = 0)
          => /\ op'.error = ""
             /\ managers'[op'.arg].alive
             /\ Singleton_get(singletonInstance') = [ret |-> op'.arg, error |-> ""]
    /\ (op'.name = "Manager" /\ op'.set /\ singletonInstance # 0)
          => /\ op'.error = "Singleton instance is already set."
             /\ singletonInstance' = singletonInstance
             /\ managers' = managers
    /\ (op'.name = "Manager" /\ ~op'.set)
          => /\ op'.error = ""
             /\ managers'[op'.arg].alive
             /\ singletonInstance' = singletonInstance
    /\ (op'.name = "~Manager" /\ ~op'.aborted)
          => /\ ~managers'[op'.arg].alive
             /\ singletonInstance' =
                   IF singletonInstance = op'.arg THEN 0 ELSE singletonInstance
    /\ op'.name \in {"initialize", "destroySystem"}
          => singletonInstance' = singletonInstance

\* C26: singletonInstance is null or one Manager that is alive; constructing
\* a Manager with setSingleton = true while it is null succeeds and makes that
\* Manager the value of Instance::get(); while it is not null the construction
\* fails with an error, no Manager is constructed and singletonInstance stays
\* as it was; a destructor that completes unsets singletonInstance if it is
\* the Manager destroyed, and leaves it alone otherwise, so that the next
\* construction with setSingleton = true succeeds.
C26_Singleton ==
    /\ [](singletonInstance # 0 => managers[singletonInstance].alive)
    /\ [][C26_Step]_vars

\* The singleton Manager was deleted while another Manager is alive, and
\* singletonInstance is null again.
C26_Witness ==
    /\ op.name = "~Manager"
    /\ op.was = op.arg
    /\ ~op.aborted
    /\ singletonInstance = 0
    /\ \E i \in 1..MaxManagers : managers[i].alive


\* ------------------------------------------------------------------ garbage pass
\* The entities of a garbage set that have a pair of type t, in ascending
\* order.
RECURSIVE Ascending(_)
Ascending(S) ==
    IF S = {} THEN <<>>
    ELSE LET least == CHOOSE x \in S : \A y \in S : x <= y
         IN  <<least>> \o Ascending(S \ {least})

GarbageOf(m, t) == Ascending({e \in 1..MaxEntities : <<t, e>> \in m.garbageComponents})

KeptEntries(m, e) ==
    SelectSeq(Directory(m, e), LAMBDA c : <<c.type, e>> \notin m.garbageComponents)

C27_Step ==
    (op'.name = "disposeGarbageComponents" /\ ~op'.aborted)
       => /\ manager'.garbageComponents = {}
          /\ \A t \in Types :
                manager'.systems[t].components.garbageItems
                   = manager.systems[t].components.garbageItems
                        \o [k \in 1..Len(GarbageOf(manager, t)) |->
                               EntryOf(manager, GarbageOf(manager, t)[k], t).instance]
          /\ \A e \in 1..manager.entities.occupancy :
                Directory(manager', e) = KeptEntries(manager, e)

\* A garbage pair without its directory entry stops the pass at the
\* assertion.
C27_MissingEntry ==
    \A t \in Types, e \in 1..manager.entities.occupancy :
       ~InDirectory(manager, e, t)
          => disposeGarbageComponents(
                 [manager EXCEPT !.garbageComponents = @ \cup {<<t, e>>}]).aborted

\* C27: disposeGarbageComponents() hands, for every garbage pair, the handle
\* of the pair's directory entry to the pool of the entry's system exactly
\* once, the pairs of one type in ascending order of the entity, removes
\* exactly those entries from the directories, the other entries keeping
\* their order, and leaves the garbage set empty; with a pair whose entry is
\* missing the pass stops at an assertion.
C27_GarbagePass == []C27_MissingEntry /\ [][C27_Step]_vars

\* A pass over two garbage pairs of one type, which destroyed the components
\* of two entities in one pool.
C27_Witness ==
    /\ op.name = "disposeGarbageComponents"
    /\ ~op.aborted
    /\ op.id = 2
    /\ \E t \in Types : Len(manager.systems[t].components.garbageItems) = 2


\* ------------------------------------------------------------------ entity finalization
\* the destroyed entities the entity pool's dispose() finalizes
DestroyedEntities(m) == SeqToSet(m.entities.garbageItems)

\* the positions of the directory entries of type t of those entities
EntriesOf(m, t) ==
    {x \in DestroyedEntities(m) \X (1..NumTypes) :
        /\ x[2] <= Len(Directory(m, x[1]))
        /\ Directory(m, x[1])[x[2]].type = t}

HandlesOf(m, t) == {Directory(m, x[1])[x[2]].instance : x \in EntriesOf(m, t)}

\* the handles dispose or destroy appended to the list s, given its old value
Appended(old, s) == SubSeq(s, Len(old) + 1, Len(s))

\* disposeEntities(): Entity::destroy() hands the handle of every entry still
\* in the directory of a finalized entity to destroy() of its pool, once,
\* whatever the garbage set holds, and the entity's handle becomes free.
C28_Finalize ==
    (op'.name = "disposeEntities" /\ ~op'.aborted)
       => /\ \A t \in Types :
                LET new == Appended(manager.systems[t].components.garbageItems,
                                    manager'.systems[t].components.garbageItems)
                IN /\ Len(new) = Cardinality(EntriesOf(manager, t))
                   /\ SeqToSet(new) = HandlesOf(manager, t)
                   /\ Cardinality(SeqToSet(new)) = Len(new)
          /\ manager'.garbageComponents = manager.garbageComponents
          /\ DestroyedEntities(manager) \subseteq SeqToSet(manager'.entities.freeItems)
          /\ manager'.entities.garbageItems = <<>>

\* update(): the destroyed entities and the components their directories
\* held when update() was called end in the free lists of their pools.
C28_Update ==
    (op'.name = "update" /\ ~op'.aborted)
       => /\ DestroyedEntities(manager) \subseteq SeqToSet(manager'.entities.freeItems)
          /\ \A t \in Types :
                /\ HandlesOf(manager, t)
                      \subseteq SeqToSet(manager'.systems[t].components.freeItems)
                /\ manager'.systems[t].components.garbageItems = <<>>
          /\ manager'.entities.garbageItems = <<>>
          /\ manager'.garbageComponents = {}

\* C28: when the entity pool's dispose finalizes a destroyed entity, every
\* entry still in its directory has its component handed to destroy() of its
\* pool exactly once, whatever the garbage set contains; one update() after
\* Manager::destroy(entity) leaves the entity's handle and the handles of
\* all its components in the free lists of their pools, every finalizer
\* returning true.
C28_EntityFinalization == [][C28_Finalize /\ C28_Update]_vars

\* One update() called with one destroyed entity and no garbage pair, after
\* which the components of both types the entity held are free.
C28_Witness ==
    /\ op.name = "update"
    /\ ~op.aborted
    /\ op.id = 1
    /\ op.type = 0
    /\ manager.entities.freeItems # <<>>
    /\ \A t \in Types : manager.systems[t].components.freeItems # <<>>

\* ------------------------------------------------------------------ clear
InitialState(p) ==
    /\ p.occupancy = 0
    /\ p.capacity = 1
    /\ p.freeItems = <<>>
    /\ p.garbageItems = <<>>
    /\ p.version = 0

\* plain.clear(false) resets the pool and the next create() returns handle
\* 1; plain.clear(true) throws and changes nothing.
C29_Step ==
    op'.name = "clear"
       => IF op'.destroyItems
          THEN /\ op'.threw
               /\ op'.error = "Item does not have destroy function."
               /\ plain' = plain
          ELSE /\ ~op'.threw
               /\ InitialState(plain')
               /\ \A arg \in Data : create(plain', T(arg), T0).id = 1

\* The same for a destructible pool with the bookkeeping of plain, with
\* either argument; and the test of the argument comes before the test of
\* isChanging.
C29_Destructible ==
    /\ \A destroyItems \in BOOLEAN :
          LET r == LinearPool_clear(plain, TRUE, destroyItems, T0)
          IN /\ ~r.threw
             /\ InitialState(r.pool)
             /\ create(r.pool, T(1), T0).id = 1
             /\ r.pool = clear(plain, destroyItems, T0).pool
             /\ r.calls = clear(plain, destroyItems, T0).calls
    /\ LET q == [plain EXCEPT !.isChanging = TRUE]
           r == LinearPool_clear(q, FALSE, TRUE, T0)
       IN /\ r.threw
          /\ r.error = "Item does not have destroy function."
          /\ r.pool = q

\* C29: clear() returns the pool to its initial state (occupancy 0, capacity
\* 1, empty free list, empty garbage list, version 0), so that the next
\* create() returns handle 1; in a debug build clear(true) on a pool
\* declared non-destructible fails with an error and changes nothing.
C29_Clear == []C29_Destructible /\ [][C29_Step]_vars

\* clear(true) refused on a pool that is not in its initial state: it has
\* grown and holds a free and a waiting slot.
C29_Witness ==
    /\ op.name = "clear"
    /\ op.destroyItems
    /\ op.threw
    /\ plain.capacity > 1
    /\ plain.freeItems # <<>>
    /\ plain.garbageItems # <<>>

\* ------------------------------------------------------------------ views of recycled slots
\* The kept view is of a slot that dispose() has reset since.
C30_Reset ==
    (view # NoView /\ view.index \in SeqToSet(pool.freeItems))
       => viewThrows(view, pool)

\* The kept view is of the slot a free-list create() re-issues.
C30_Reissued ==
    (view # NoView /\ op'.name = "create" /\ op'.reused /\ op'.id = view.index)
       => viewThrows(view', pool')

\* C30: a View never gives access to a record other than the one it was
\* obtained for: once the slot of h has been reset by dispose() or re-issued
\* by a free-list create(), every dereference of a View obtained for h
\* earlier, also between destroy(h) and dispose(), throws the staleness
\* error in a debug build.
C30_StaleViewThrows == []C30_Reset /\ [][C30_Reissued]_vars

\* ------------------------------------------------------------------ views kept over clear
\* C31: clear() invalidates all previous Views: in a debug build a View
\* obtained before a clear() throws the staleness error on every dereference
\* made after the clear, however many create and destroy calls follow it.
C31_ClearInvalidates ==
    (view # NoView /\ view.cleared) => viewThrows(view, pool)

\* ------------------------------------------------------------------ free list
NoDuplicates(s) == Cardinality(SeqToSet(s)) = Len(s)

\* The free list holds no handle twice and none of the garbage list, and
\* getCount() does not wrap around.
C32_Lists ==
    /\ NoDuplicates(pool.freeItems)
    /\ SeqToSet(pool.freeItems) \cap SeqToSet(pool.garbageItems) = {}
    /\ getCount(pool) >= 0

\* create() returns no handle that is still in use.
C32_Create == op'.name = "create" => ~op'.held

\* C32: for every sequence of create, destroy and dispose calls in which
\* each destroy passes the debug assertions of the pool (non-null, index
\* below occupancy, not in the garbage list), the free list never holds a
\* handle twice and never shares one with the garbage list, so create()
\* never returns a handle that is still in use and getCount() never
\* underflows.
C32_FreeListSound == []C32_Lists /\ [][C32_Create]_vars

\* ------------------------------------------------------------------ add after remove
C33_Step ==
    (/\ op'.name = "add"
     /\ op'.type \in DOMAIN manager.componentTypes
     /\ op'.entity \in owned
     /\ ~has(manager, op'.entity, op'.type))
       => /\ op'.error = ""
          /\ ~op'.aborted
          /\ has(manager', op'.entity, op'.type)

\* C33: whenever has(entity, T) is false for a live entity and a registered
\* component type T, add(entity, T) succeeds and makes has(entity, T) true.
C33_AddWhenAbsent == [][C33_Step]_vars


\* ------------------------------------------------------------------ duplicate
C34_Step ==
    (op'.name = "duplicate" /\ op'.error = "" /\ ~op'.aborted)
       => /\ op'.id \notin owned
          /\ \A t \in Types :
                /\ has(manager', op'.id, t) = has(manager, op'.entity, t)
                /\ (InDirectory(manager', op'.id, t) /\ InDirectory(manager, op'.entity, t))
                      => EntryOf(manager', op'.id, t).instance
                            # EntryOf(manager, op'.entity, t).instance

\* C34: Manager::duplicate(entity) returns a new entity with the same
\* visible component set as the source: for every component type T,
\* has(duplicate, T) equals has(entity, T) right after the call, and every
\* component handle of the duplicate differs from the handle of the source
\* for that type.
C34_Duplicate == [][C34_Step]_vars


\* ------------------------------------------------------------------ lock after update
\* C35: update() always releases the manager lock it acquired: after
\* update() returns or fails (an event subscriber or a dispose pass raising
\* an error), the lock is free, so that a later lock(), tryLock() or
\* update() from any thread is not blocked for ever.
C35_UpdateReleasesLock ==
    (/\ op.name = "update"
     /\ op.returns
     /\ ~op.aborted
     /\ LockMark \in SeqToSet(op.trace))
       => ~lm.locker


\* ------------------------------------------------------------------ failed registration
C36_Step ==
    (/\ op'.name \in {"registerEventBefore", "registerEventAfter"}
     /\ op'.error \in {"Before event is not registered.",
                       "After event is not registered."})
       => /\ op'.arg \notin DOMAIN lm'.events
          /\ lm'.events = lm.events
          /\ lm'.orderedEvents = lm.orderedEvents

\* C36: a registerEventBefore or registerEventAfter call that fails because
\* the reference event is not in the ordered sequence leaves the event
\* registry unchanged: afterwards hasEvent(newEvent) is false, the ordered
\* sequence is as before, and registering or unregistering that name
\* behaves as if the failed call had never been made.
C36_FailedRegistration == [][C36_Step]_vars


\* ------------------------------------------------------------------ failed system calls
SystemFailures ==
    {"Component is already registered by the other system.",
     "Component name is already registered by the other system.",
     "System is already created.",
     "System is not created."}

C37_Step ==
    (op'.name \in {"createSystem", "destroySystem"} /\ op'.error \in SystemFailures)
       => /\ lm'.data = lm.data
          /\ lm'.componentNames = lm.componentNames
          /\ ~lm'.isChanging

\* C37: a createSystem or destroySystem call that fails (system already
\* created, component type or name already registered, system not found)
\* leaves the manager as it was before the call: no system, component-type
\* or component-name registration of the failed call remains, and the debug
\* reentrancy flag is not left set, so a following valid createSystem or
\* destroySystem succeeds.
C37_FailedSystemCall == [][C37_Step]_vars


\* ------------------------------------------------------------------ entries of deleted systems
\* C38: every directory entry of every live entity refers to a system that
\* is currently registered in the Manager: destroySystem (and
\* tryDestroySystem) never leaves an entity holding an entry whose system
\* has been deleted, so later entity finalization and garbage reclaim only
\* call destroyComponent on registered systems.
C38_EntriesRegistered ==
    LifeGoing =>
       \A e \in 1..lm.data.entities.occupancy :
          \A i \in 1..Len(Directory(lm.data, e)) :
             Directory(lm.data, e)[i].system \in DOMAIN lm.data.systems


\* ------------------------------------------------------------------ one dispose pass
\* the handles whose finalizer gave the answer ok in the pass
Answered(calls, ok) == {calls[k].h : k \in {j \in 1..Len(calls) : calls[j].ok = ok}}

C39_Step ==
    op'.name = "dispose"
       => /\ \A h \in Handles :
                Occurrences([k \in 1..Len(op'.calls) |-> op'.calls[k].h], h)
                   = Occurrences(pool.garbageItems, h)
          /\ SeqToSet(pool'.garbageItems) = Answered(op'.calls, FALSE)
          /\ NoDuplicates(pool'.garbageItems)
          /\ SubSeq(pool'.freeItems, 1, Len(pool.freeItems)) = pool.freeItems
          /\ SeqToSet(Appended(pool.freeItems, pool'.freeItems))
                = Answered(op'.calls, TRUE)
          /\ NoDuplicates(Appended(pool.freeItems, pool'.freeItems))

\* C39: one dispose() pass on a destructible pool calls the finalizer of
\* every handle that was in the garbage list at the start of the pass
\* exactly once; when the pass ends the garbage list holds exactly the
\* handles whose finalizer returned false and the free list has gained
\* exactly the handles whose finalizer returned true.
C39_DisposePass == [][C39_Step]_vars

\* A pass over two handles in which the first finalizer returned true, so
\* that the last handle was moved into its place, and the finalizer of that
\* one returned false.
C39_Witness ==
    /\ op.name = "dispose"
    /\ Len(op.calls) > 1
    /\ op.calls[1].ok
    /\ ~op.calls[Len(op.calls)].ok
    /\ Len(pool.garbageItems) = 1


\* ------------------------------------------------------------------ unsubscribe
C40_Step ==
    op'.name = "unsubscribeFromEvent"
       => LET subscribers == lm.events[op'.arg].subscribers
          IN  IF op'.other \in SeqToSet(subscribers)
              THEN /\ op'.error = ""
                   /\ \E i \in 1..Len(subscribers) :
                         /\ subscribers[i] = op'.other
                         /\ lm' = [lm EXCEPT !.events[op'.arg].subscribers =
                                                eraseAt(@, i)]
              ELSE /\ op'.error # ""
                   /\ lm' = lm

\* C40: unsubscribeFromEvent(name, f) removes exactly the subscription that
\* was made with callback f and leaves every other subscriber of that event
\* in place and in the same order; it fails with an error, changing
\* nothing, when f is not subscribed to the event.
C40_Unsubscribe == [][C40_Step]_vars

=============================================================================
